---- MODULE Spec2Model ----
(***************************************************************************)
(* Order-4 B+ tree engine (class BPlusTree, utils/bPlusTreeLogic.ts).      *)
(* A tree is a record: a heap of nodes addressed by the value of the id    *)
(* counter at creation, the root address, the id counter and the two       *)
(* constructor parameters (duplicate-key policy and key selector).         *)
(* The field did is a history field, not a field of the program: the set   *)
(* of structural steps (split, borrow, merge, root collapse) taken by the  *)
(* last call, with "throw" when the call ended in a TypeError. The field   *)
(* foreign is a history field too: the number of nodes the other trees of  *)
(* the process have created when the call starts. The field repairs is the *)
(* sequence of the repairs handleUnderflow chose in the last call. The     *)
(* field log holds, during a call only, the arguments of every splitChild, *)
(* borrow and merge the call makes; it is empty in every state.            *)
(***************************************************************************)
EXTENDS Integers, Sequences, FiniteSets, TLC

VARIABLES tree, ref, phase, pending, hist, other, ai, app

vars == <<tree, ref, phase, pending, hist, other, ai, app>>

----------------------------------------------------------------------------
(* Program constants *)

ORDER == 4

MIN_KEYS == ((ORDER + 1) \div 2) - 1

NULL == -1

----------------------------------------------------------------------------
(* Bounds of the exploration *)

MaxKey == 6

MaxFreeKey == 4

MaxNodes == 8

MaxFreeNodes == 5

MaxBulk == 10

MaxSeqKey == 4

MaxCalls == 5

MaxOther == 4

MaxAppId == 1

MaxToasts == 1

Keys == 1..MaxKey

BulkKeys == 1..MaxBulk

(* TableRow: id and age. The rows [id |-> k, age |-> k], and one row that   *)
(* shares its id with one of them and its age with another.                 *)
Twin == [id |-> 2, age |-> 3]

Rows == {[id |-> k, age |-> k] : k \in Keys} \cup {Twin}

NoRow == [id |-> 0, age |-> 0]

----------------------------------------------------------------------------
(* Array helpers, with the 0-based indices of the source *)

At(s, i) == s[i + 1]

SetAt(s, i, e) == [s EXCEPT ![i + 1] = e]

SpliceIn(s, i, e) ==
    LET j == IF i > Len(s) THEN Len(s) ELSE i
    IN  SubSeq(s, 1, j) \o <<e>> \o SubSeq(s, j + 1, Len(s))

SpliceOut(s, i) == SubSeq(s, 1, i) \o SubSeq(s, i + 2, Len(s))

From(s, i) == SubSeq(s, i + 1, Len(s))

Upto(s, i) == SubSeq(s, 1, i)

RECURSIVE IndexOfFrom(_, _, _)
IndexOfFrom(s, e, i) ==
    IF i >= Len(s) THEN -1
    ELSE IF At(s, i) = e THEN i
    ELSE IndexOfFrom(s, e, i + 1)

IndexOf(s, e) == IndexOfFrom(s, e, 0)

RECURSIVE FindRowFrom(_, _, _)
FindRowFrom(group, row, i) ==
    IF i >= Len(group) THEN -1
    ELSE IF At(group, i).id = row.id THEN i
    ELSE FindRowFrom(group, row, i + 1)

FindRow(group, row) == FindRowFrom(group, row, 0)

----------------------------------------------------------------------------
(* Node model and construction *)

keySelector(t, row) == IF t.keyField = "id" THEN row.id ELSE row.age

(* mutant: every node gets the id of the first node *)
generateId_Fixed(t) == <<"node_", 0>>

(* mutant: the counter is shared by all the trees of the process *)
generateId_Shared(t) == <<"node_", t.nodeIdCounter + t.foreign>>

(* the string `node_${n}`, n the value of the counter before the increment *)
generateId(t) == <<"node_", t.nodeIdCounter>>

createNode(t, isLeaf, parent) ==
    [keys |-> <<>>, children |-> <<>>, isLeaf |-> isLeaf, next |-> NULL,
     data |-> <<>>, id |-> generateId(t), parent |-> parent]

(* allocate a node: generateId post-increments the counter; the node is     *)
(* addressed by the value the counter had                                  *)
Alloc(t, isLeaf, parent) ==
    [t EXCEPT !.nodes = (t.nodeIdCounter :> createNode(t, isLeaf, parent)) @@ t.nodes,
              !.nodeIdCounter = t.nodeIdCounter + 1]

(* the constructor: the root is the first node created *)
NewTree(unique, field) ==
    Alloc([nodes |-> <<>>, root |-> 0, nodeIdCounter |-> 0, uniqueKeys |-> unique,
           keyField |-> field, did |-> {}, foreign |-> 0, repairs |-> <<>>,
           log |-> <<>>],
          TRUE, NULL)

(* a read of a property of undefined raises a TypeError and ends the call *)
Throw(t) == [t EXCEPT !.did = @ \cup {"throw"}]

Threw(t) == "throw" \in t.did

(* mutant: moved children keep their old parent *)
SetParents_Mutant(nodes, cs, p) == nodes

SetParents(nodes, cs, p) ==
    [a \in DOMAIN nodes |->
        IF \E k \in 1..Len(cs) : cs[k] = a
        THEN [nodes[a] EXCEPT !.parent = p] ELSE nodes[a]]

----------------------------------------------------------------------------
(* Insert *)

(* mutant: the new sibling is always created as a leaf *)
SiblingKind_Mutant(child) == TRUE

SiblingKind(child) == child.isLeaf

(* history: a node holds more keys than a node may hold *)
Grown(keys) == IF Len(keys) > ORDER - 1 THEN {"overfull"} ELSE {}

(* history: the call op(parent, index) is about to run on the tree t *)
Logged(t, op, parent, index) == [op |-> op, t |-> t, parent |-> parent, index |-> index]

(* mutant: the split point is rounded up *)
SplitPoint_Mutant(keys) == (Len(keys) + 1) \div 2

SplitPoint(keys) == Len(keys) \div 2

(* mutant: the key at the split point goes to the new node as well *)
KeysAfter_Mutant(keys, splitPoint) == From(keys, splitPoint)

(* the keys an internal node hands to its new right sibling *)
KeysAfter(keys, splitPoint) == From(keys, splitPoint + 1)

splitChild(t, parent, index, child) ==
    LET n   == t.nodeIdCounter
        odd == IF Len(t.nodes[child].keys) = ORDER - 1 THEN {} ELSE {"splitNotFull"}
        t1  == Alloc(t, SiblingKind(t.nodes[child]), parent)
        call == Logged(t, "splitChild", parent, index)
        c   == [t1.nodes[child] EXCEPT !.parent = parent]
        p   == t1.nodes[parent]
        splitPoint == SplitPoint(c.keys)
    IN IF c.isLeaf
       THEN LET newNode == [t1.nodes[n] EXCEPT
                               !.keys = From(c.keys, splitPoint),
                               !.data = From(c.data, splitPoint),
                               !.next = c.next]
                c2 == [c EXCEPT !.keys = Upto(c.keys, splitPoint),
                                !.data = Upto(c.data, splitPoint),
                                !.next = n]
                p2 == [p EXCEPT !.keys = SpliceIn(p.keys, index, At(newNode.keys, 0)),
                                !.children = SpliceIn(p.children, index + 1, n)]
            IN [t1 EXCEPT !.nodes = [t1.nodes EXCEPT ![n] = newNode,
                                                     ![child] = c2,
                                                     ![parent] = p2],
                          !.did = @ \cup {"splitLeaf"} \cup odd \cup Grown(p2.keys),
                          !.log = Append(@, call)]
       ELSE LET midKey == At(c.keys, splitPoint)
                moved  == From(c.children, splitPoint + 1)
                newNode == [t1.nodes[n] EXCEPT
                               !.keys = KeysAfter(c.keys, splitPoint),
                               !.children = moved]
                c2 == [c EXCEPT !.keys = Upto(c.keys, splitPoint),
                                !.children = Upto(c.children, splitPoint + 1)]
                p2 == [p EXCEPT !.keys = SpliceIn(p.keys, index, midKey),
                                !.children = SpliceIn(p.children, index + 1, n)]
                ns == [t1.nodes EXCEPT ![n] = newNode, ![child] = c2, ![parent] = p2]
            IN [t1 EXCEPT !.nodes = SetParents(ns, moved, n),
                          !.did = @ \cup {"splitInternal"} \cup odd \cup Grown(p2.keys),
                          !.log = Append(@, call)]

RECURSIVE ScanDown(_, _, _)
ScanDown(keys, key, i) ==
    IF i >= 0 /\ key < At(keys, i) THEN ScanDown(keys, key, i - 1) ELSE i

(* does the descent move to the right half after a proactive split *)
GoesRight(key, sep) == key > sep

(* history: the descent reaches node n while it holds ORDER - 1 keys *)
Entered(t, n) ==
    [t EXCEPT !.did = @ \cup (IF Len(t.nodes[n].keys) = ORDER - 1
                              THEN {"enteredFull"} ELSE {})]

(* mutant: a full child is never split on the way down *)
ChildFull_Mutant(node) == FALSE

ChildFull(node) == Len(node.keys) = ORDER - 1

RECURSIVE insertNonFull(_, _, _)
insertNonFull(t, n, row) ==
    LET node == t.nodes[n]
        key  == keySelector(t, row)
        i    == ScanDown(node.keys, key, Len(node.keys) - 1)
    IN IF node.isLeaf
       THEN IF i >= 0 /\ At(node.keys, i) = key
            THEN IF t.uniqueKeys
                 THEN [t EXCEPT !.nodes[n].data = SetAt(node.data, i, <<row>>)]
                 ELSE IF i >= Len(node.data) THEN Throw(t)
                 ELSE [t EXCEPT !.nodes[n].data =
                                   SetAt(node.data, i, Append(At(node.data, i), row))]
            ELSE [t EXCEPT !.nodes[n].keys = SpliceIn(node.keys, i + 1, key),
                           !.nodes[n].data = SpliceIn(node.data, i + 1, <<row>>),
                           !.did = @ \cup Grown(SpliceIn(node.keys, i + 1, key))]
       ELSE LET ci   == i + 1
            IN IF ci >= Len(node.children) THEN Throw(t)
               ELSE LET c    == At(node.children, ci)
                        t1   == [t EXCEPT !.nodes[c].parent = n]
                        full == ChildFull(t1.nodes[c])
                        Below(t2) ==
                            LET cj == IF full /\ GoesRight(key, At(t2.nodes[n].keys, ci))
                                      THEN ci + 1 ELSE ci
                            IN IF cj >= Len(t2.nodes[n].children) THEN Throw(t2)
                               ELSE LET d  == At(t2.nodes[n].children, cj)
                                        t3 == [t2 EXCEPT !.nodes[d].parent = n]
                                    IN insertNonFull(Entered(t3, d), d, row)
                    IN Below(IF full THEN splitChild(t1, n, ci, c) ELSE t1)

(* mutant: the root is split one key too late *)
RootFull_Mutant(t) == Len(t.nodes[t.root].keys) = ORDER

RootFull(t) == Len(t.nodes[t.root].keys) = ORDER - 1

insert(t, row) ==
    IF RootFull(t)
    THEN LET nr == t.nodeIdCounter
             t1 == Alloc(t, FALSE, NULL)
             t2 == [t1 EXCEPT !.nodes[nr].children = <<t.root>>,
                              !.nodes[t.root].parent = nr]
             t3 == splitChild(t2, nr, 0, t.root)
             t4 == [t3 EXCEPT !.root = nr, !.did = @ \cup {"splitRoot"}]
         IN insertNonFull(Entered(t4, nr), nr, row)
    ELSE insertNonFull(Entered(t, t.root), t.root, row)

RECURSIVE InsertAll(_, _)
InsertAll(t, rows) ==
    IF rows = <<>> \/ Threw(t) THEN t
    ELSE InsertAll(insert(t, Head(rows)), Tail(rows))

(* mutant: the rows are sorted by key before they are inserted *)
rowsToInsert_Mutant(rows, field) ==
    LET KeyAt(i) == IF field = "id" THEN rows[i].id ELSE rows[i].age
        Rank(i) == Cardinality({j \in 1..Len(rows) :
                        KeyAt(j) < KeyAt(i) \/ (KeyAt(j) = KeyAt(i) /\ j < i)})
    IN [n \in 1..Len(rows) |-> rows[CHOOSE i \in 1..Len(rows) : Rank(i) = n - 1]]

(* the copy [...rows] the loop runs over *)
rowsToInsert(rows, field) == rows

fromRows(rows, field, unique) ==
    InsertAll(NewTree(unique, field), rowsToInsert(rows, field))

----------------------------------------------------------------------------
(* Delete *)

(* NULL: the child to descend into does not exist *)
RECURSIVE DescendFrom(_, _, _)
DescendFrom(t, n, key) ==
    LET node == t.nodes[n]
    IN IF node.isLeaf THEN n
       ELSE LET RECURSIVE Scan(_)
                Scan(i) == IF i < Len(node.keys) /\ key >= At(node.keys, i)
                           THEN Scan(i + 1) ELSE i
            IN IF Scan(0) >= Len(node.children) THEN NULL
               ELSE DescendFrom(t, At(node.children, Scan(0)), key)

searchLeafNode(t, key) == DescendFrom(t, t.root, key)

RECURSIVE FoundIdxFrom(_, _, _, _)
FoundIdxFrom(node, key, row, i) ==
    IF i >= Len(node.keys) THEN -1
    ELSE IF At(node.keys, i) = key /\ FindRow(At(node.data, i), row) # -1 THEN i
    ELSE FoundIdxFrom(node, key, row, i + 1)

RECURSIVE RemoveAllKey(_, _)
RemoveAllKey(node, key) ==
    LET idx == IndexOf(node.keys, key)
    IN IF idx = -1 THEN node
       ELSE RemoveAllKey([node EXCEPT !.keys = SpliceOut(node.keys, idx),
                                      !.data = SpliceOut(node.data, idx)], key)

(* result: the tree and the boolean the source returns *)
deleteFromLeaf(t, n, key, row) ==
    LET node == t.nodes[n]
    IN IF row # NoRow
       THEN LET foundIdx == FoundIdxFrom(node, key, row, 0)
            IN IF foundIdx = -1 THEN [t |-> t, deleted |-> FALSE]
               ELSE LET g  == At(node.data, foundIdx)
                        g2 == SpliceOut(g, FindRow(g, row))
                        n2 == IF Len(g2) = 0
                              THEN [node EXCEPT !.keys = SpliceOut(node.keys, foundIdx),
                                                !.data = SpliceOut(node.data, foundIdx)]
                              ELSE [node EXCEPT !.data = SetAt(node.data, foundIdx, g2)]
                    IN [t |-> [t EXCEPT !.nodes[n] = n2], deleted |-> TRUE]
       ELSE IF IndexOf(node.keys, key) = -1 THEN [t |-> t, deleted |-> FALSE]
            ELSE [t |-> [t EXCEPT !.nodes[n] = RemoveAllKey(node, key)],
                  deleted |-> TRUE]

(* <<>> stands for undefined, <<k>> for the number k, <<NULL, NULL>> for a  *)
(* descent that met an internal node without children                      *)
RECURSIVE getSubtreeMinKey(_, _)
getSubtreeMinKey(t, n) ==
    LET node == t.nodes[n]
    IN IF node.isLeaf
       THEN (IF Len(node.keys) = 0 THEN <<>> ELSE <<At(node.keys, 0)>>)
       ELSE IF Len(node.children) = 0 THEN <<NULL, NULL>>
       ELSE getSubtreeMinKey(t, At(node.children, 0))

(* mutant: the separators are left as they are *)
refreshSeparatorsUpward_Mutant(t, n) == t

RECURSIVE refreshSeparatorsUpward(_, _)
refreshSeparatorsUpward(t, n) ==
    LET p == t.nodes[n].parent
    IN IF p = NULL THEN t
       ELSE LET idx == IndexOf(t.nodes[p].children, n)
                minKey == getSubtreeMinKey(t, n)
            IN IF idx < 0 THEN t
               ELSE IF idx > 0 /\ Len(minKey) = 2 THEN Throw(t)
               ELSE IF idx > 0 /\ minKey # <<>>
                    THEN refreshSeparatorsUpward(
                            [t EXCEPT !.nodes[p].keys =
                                         SetAt(t.nodes[p].keys, idx - 1, minKey[1])], p)
                    ELSE refreshSeparatorsUpward(t, p)

(* mutant: the receiver gets the donor's key, as the parent does *)
RotatedKey_Mutant(parentKey, borrowedKey) == borrowedKey

(* the key an internal receiver gets: the separator comes down *)
RotatedKey(parentKey, borrowedKey) == parentKey

(* mutant: the separator becomes the last key the left sibling keeps *)
borrowFromLeft_Mutant(t, parent, childIdx) ==
    LET p  == t.nodes[parent]
        n  == At(p.children, childIdx)
        l  == At(p.children, childIdx - 1)
        node == t.nodes[n]
        left == t.nodes[l]
        last == Len(left.keys) - 1
        borrowedKey == At(left.keys, last)
    IN IF node.isLeaf
       THEN [t EXCEPT
               !.nodes[l].keys = Upto(left.keys, last),
               !.nodes[l].data = Upto(left.data, Len(left.data) - 1),
               !.nodes[parent].keys = SetAt(p.keys, childIdx - 1, At(left.keys, last - 1)),
               !.nodes[n].keys = <<borrowedKey>> \o node.keys,
               !.nodes[n].data = <<At(left.data, Len(left.data) - 1)>> \o node.data,
               !.did = @ \cup {"borrowLeftLeaf"}]
       ELSE IF Len(left.children) = 0 THEN Throw(t)
       ELSE LET borrowedChild == At(left.children, Len(left.children) - 1)
                parentKey == At(p.keys, childIdx - 1)
            IN [t EXCEPT
                  !.nodes[l].keys = Upto(left.keys, last),
                  !.nodes[l].children = Upto(left.children, Len(left.children) - 1),
                  !.nodes[parent].keys = SetAt(p.keys, childIdx - 1, borrowedKey),
                  !.nodes[n].keys = <<RotatedKey(parentKey, borrowedKey)>> \o node.keys,
                  !.nodes[n].children = <<borrowedChild>> \o node.children,
                  !.nodes[borrowedChild].parent = n,
                  !.did = @ \cup {"borrowLeftInternal"}]

borrowFromLeft(t, parent, childIdx) ==
    LET p  == t.nodes[parent]
        n  == At(p.children, childIdx)
        l  == At(p.children, childIdx - 1)
        node == t.nodes[n]
        left == t.nodes[l]
        last == Len(left.keys) - 1
        borrowedKey == At(left.keys, last)
    IN IF node.isLeaf
       THEN [t EXCEPT
               !.nodes[l].keys = Upto(left.keys, last),
               !.nodes[l].data = Upto(left.data, Len(left.data) - 1),
               !.nodes[parent].keys = SetAt(p.keys, childIdx - 1, borrowedKey),
               !.nodes[n].keys = <<borrowedKey>> \o node.keys,
               !.nodes[n].data = <<At(left.data, Len(left.data) - 1)>> \o node.data,
               !.did = @ \cup {"borrowLeftLeaf"}]
       ELSE IF Len(left.children) = 0 THEN Throw(t)
       ELSE LET borrowedChild == At(left.children, Len(left.children) - 1)
                parentKey == At(p.keys, childIdx - 1)
            IN [t EXCEPT
                  !.nodes[l].keys = Upto(left.keys, last),
                  !.nodes[l].children = Upto(left.children, Len(left.children) - 1),
                  !.nodes[parent].keys = SetAt(p.keys, childIdx - 1, borrowedKey),
                  !.nodes[n].keys = <<RotatedKey(parentKey, borrowedKey)>> \o node.keys,
                  !.nodes[n].children = <<borrowedChild>> \o node.children,
                  !.nodes[borrowedChild].parent = n,
                  !.did = @ \cup {"borrowLeftInternal"}]

borrowFromRight(t, parent, childIdx) ==
    LET p  == t.nodes[parent]
        n  == At(p.children, childIdx)
        r  == At(p.children, childIdx + 1)
        node  == t.nodes[n]
        right == t.nodes[r]
        borrowedKey == At(right.keys, 0)
        restKeys == From(right.keys, 1)
    IN IF node.isLeaf
       THEN [t EXCEPT
               !.nodes[r].keys = restKeys,
               !.nodes[r].data = From(right.data, 1),
               !.nodes[parent].keys = IF Len(restKeys) > 0
                                      THEN SetAt(p.keys, childIdx, At(restKeys, 0))
                                      ELSE p.keys,
               !.nodes[n].keys = Append(node.keys, borrowedKey),
               !.nodes[n].data = Append(node.data, At(right.data, 0)),
               !.did = @ \cup {"borrowRightLeaf"}
                         \cup (IF Len(restKeys) > 0 THEN {} ELSE {"donorEmptied"})]
       ELSE IF Len(right.children) = 0 THEN Throw(t)
       ELSE LET borrowedChild == At(right.children, 0)
                parentKey == At(p.keys, childIdx)
            IN [t EXCEPT
                  !.nodes[r].keys = restKeys,
                  !.nodes[r].children = From(right.children, 1),
                  !.nodes[parent].keys = SetAt(p.keys, childIdx, borrowedKey),
                  !.nodes[n].keys = Append(node.keys, RotatedKey(parentKey, borrowedKey)),
                  !.nodes[n].children = Append(node.children, borrowedChild),
                  !.nodes[borrowedChild].parent = n,
                  !.did = @ \cup {"borrowRightInternal"}]

(* mutant: the surviving leaf keeps its next *)
SplicedNext_Mutant(survivorNext, absorbedNext) == survivorNext

(* the next of the leaf that survives a merge *)
SplicedNext(survivorNext, absorbedNext) == absorbedNext

(* mutant: the separator is not taken down into the merged node *)
MergedKeys_Mutant(leftKeys, parentKey, rightKeys) == leftKeys \o rightKeys

(* the keys of the internal node that survives a merge *)
MergedKeys(leftKeys, parentKey, rightKeys) == leftKeys \o <<parentKey>> \o rightKeys

mergeWithLeft(t, parent, childIdx) ==
    LET p  == t.nodes[parent]
        n  == At(p.children, childIdx)
        l  == At(p.children, childIdx - 1)
        node == t.nodes[n]
        left == t.nodes[l]
        parentKey == At(p.keys, childIdx - 1)
        t1 == IF node.isLeaf
              THEN [t EXCEPT !.nodes[l].keys = left.keys \o node.keys,
                             !.nodes[l].data = left.data \o node.data,
                             !.nodes[l].next = SplicedNext(left.next, node.next)]
              ELSE [t EXCEPT !.nodes = SetParents(
                       [t.nodes EXCEPT ![l].keys = MergedKeys(left.keys, parentKey, node.keys),
                                       ![l].children = left.children \o node.children],
                       node.children, l)]
    IN [t1 EXCEPT !.nodes[parent].keys = SpliceOut(p.keys, childIdx - 1),
                  !.nodes[parent].children = SpliceOut(p.children, childIdx),
                  !.did = @ \cup {IF node.isLeaf THEN "mergeLeftLeaf"
                                                 ELSE "mergeLeftInternal"}]

mergeWithRight(t, parent, childIdx) ==
    IF childIdx + 1 >= Len(t.nodes[parent].children) THEN Throw(t) ELSE
    LET p  == t.nodes[parent]
        n  == At(p.children, childIdx)
        r  == At(p.children, childIdx + 1)
        node  == t.nodes[n]
        right == t.nodes[r]
        parentKey == At(p.keys, childIdx)
        t1 == IF node.isLeaf
              THEN [t EXCEPT !.nodes[n].keys = node.keys \o right.keys,
                             !.nodes[n].data = node.data \o right.data,
                             !.nodes[n].next = SplicedNext(node.next, right.next)]
              ELSE [t EXCEPT !.nodes = SetParents(
                       [t.nodes EXCEPT ![n].keys = MergedKeys(node.keys, parentKey, right.keys),
                                       ![n].children = node.children \o right.children],
                       right.children, n)]
    IN [t1 EXCEPT !.nodes[parent].keys = SpliceOut(p.keys, childIdx),
                  !.nodes[parent].children = SpliceOut(p.children, childIdx + 1),
                  !.did = @ \cup {IF node.isLeaf THEN "mergeRightLeaf"
                                                 ELSE "mergeRightInternal"}]

(* mutant: a sibling at the minimum is taken as a donor *)
HasSurplus_Mutant(node) == Len(node.keys) >= MIN_KEYS

(* mutant: every sibling is taken as a donor *)
HasSurplus_Always(node) == TRUE

HasSurplus(node) == Len(node.keys) > MIN_KEYS

(* mutant: the merge never looks for a left sibling *)
HasLeft_Mutant(childIdx) == FALSE

HasLeft(childIdx) == childIdx > 0

(* mutant: a node at the minimum is repaired as well *)
Underflows_Mutant(t, n) == n # t.root /\ Len(t.nodes[n].keys) <= MIN_KEYS

(* the node is not the root and holds fewer keys than a node must hold *)
Underflows(t, n) == n # t.root /\ Len(t.nodes[n].keys) < MIN_KEYS

RightDonor(t, parent, childIdx) ==
    LET cs == t.nodes[parent].children
    IN childIdx < Len(cs) - 1 /\ HasSurplus(t.nodes[At(cs, childIdx + 1)])

(* mutant: with a surplus on both sides the right sibling is the donor *)
LeftDonor_Mutant(t, parent, childIdx) ==
    LET cs == t.nodes[parent].children
    IN /\ childIdx > 0 /\ HasSurplus(t.nodes[At(cs, childIdx - 1)])
       /\ ~RightDonor(t, parent, childIdx)

LeftDonor(t, parent, childIdx) ==
    LET cs == t.nodes[parent].children
    IN childIdx > 0 /\ HasSurplus(t.nodes[At(cs, childIdx - 1)])

(* history: the repair chosen for node n, with the key counts of the       *)
(* siblings it found (-1: no such sibling)                                  *)
Repair(t, n, parent, childIdx, choice) ==
    LET cs == t.nodes[parent].children
    IN [t EXCEPT !.log = Append(@, Logged(t, choice, parent, childIdx)),
                 !.repairs = Append(@,
           [node |-> n, parent |-> parent, choice |-> choice,
            keys |-> Len(t.nodes[n].keys), isLeaf |-> t.nodes[n].isLeaf,
            leftKeys |-> IF childIdx > 0
                         THEN Len(t.nodes[At(cs, childIdx - 1)].keys) ELSE -1,
            rightKeys |-> IF childIdx < Len(cs) - 1
                          THEN Len(t.nodes[At(cs, childIdx + 1)].keys) ELSE -1])]

(* mutant: after a merge the parent is not looked at *)
RECURSIVE handleUnderflow_Mutant(_, _)
handleUnderflow_Mutant(t, n) ==
    IF Threw(t) \/ ~(n # t.root /\ Len(t.nodes[n].keys) < MIN_KEYS) THEN t
    ELSE LET parent == t.nodes[n].parent
         IN IF parent = NULL THEN t
            ELSE LET childIdx == IndexOf(t.nodes[parent].children, n)
                 IN IF childIdx < 0 THEN t
                    ELSE IF LeftDonor(t, parent, childIdx)
                    THEN borrowFromLeft(Repair(t, n, parent, childIdx, "borrowLeft"),
                                        parent, childIdx)
                    ELSE IF RightDonor(t, parent, childIdx)
                    THEN borrowFromRight(Repair(t, n, parent, childIdx, "borrowRight"),
                                         parent, childIdx)
                    ELSE IF HasLeft(childIdx)
                    THEN mergeWithLeft(Repair(t, n, parent, childIdx, "mergeLeft"),
                                       parent, childIdx)
                    ELSE mergeWithRight(Repair(t, n, parent, childIdx, "mergeRight"),
                                        parent, childIdx)

RECURSIVE handleUnderflow(_, _)
handleUnderflow(t, n) ==
    IF Threw(t) \/ ~Underflows(t, n) THEN t
    ELSE LET parent == t.nodes[n].parent
         IN IF parent = NULL THEN t
            ELSE LET childIdx == IndexOf(t.nodes[parent].children, n)
                 IN IF childIdx < 0 THEN t
                    ELSE IF LeftDonor(t, parent, childIdx)
                    THEN borrowFromLeft(Repair(t, n, parent, childIdx, "borrowLeft"),
                                        parent, childIdx)
                    ELSE IF RightDonor(t, parent, childIdx)
                    THEN borrowFromRight(Repair(t, n, parent, childIdx, "borrowRight"),
                                         parent, childIdx)
                    ELSE IF HasLeft(childIdx)
                    THEN handleUnderflow(
                             mergeWithLeft(Repair(t, n, parent, childIdx, "mergeLeft"),
                                           parent, childIdx), parent)
                    ELSE handleUnderflow(
                             mergeWithRight(Repair(t, n, parent, childIdx, "mergeRight"),
                                            parent, childIdx), parent)

(* mutant: the root is never replaced *)
RootEmpty_Mutant(rt) == FALSE

RootEmpty(rt) == Len(rt.keys) = 0 /\ ~rt.isLeaf /\ Len(rt.children) > 0

delete(t, key, row) ==
    LET n == searchLeafNode(t, key)
        r == deleteFromLeaf(t, n, key, row)
    IN IF n = NULL THEN Throw(t)
       ELSE IF ~r.deleted THEN t
       ELSE LET Repaired(t1) ==
                    IF Threw(t1) THEN t1
                    ELSE IF Underflows(t1, n)
                    THEN handleUnderflow(t1, n) ELSE t1
                Collapsed(t2) ==
                    LET rt == t2.nodes[t2.root]
                    IN IF Threw(t2) THEN t2
                       ELSE IF RootEmpty(rt)
                       THEN [t2 EXCEPT !.root = At(rt.children, 0),
                                       !.nodes[At(rt.children, 0)].parent = NULL,
                                       !.did = @ \cup {"collapse"}]
                       ELSE t2
            IN Collapsed(Repaired(refreshSeparatorsUpward(r.t, n)))

----------------------------------------------------------------------------
(* Garbage collection: a node no reference leads to from the root is gone *)

Refs(node) ==
    ({node.children[k] : k \in 1..Len(node.children)} \cup {node.next, node.parent})
        \ {NULL}

(* the nodes references lead to from seen, the nodes of frontier being the  *)
(* ones whose references have not been followed yet                        *)
RECURSIVE ClosureFrom(_, _, _)
ClosureFrom(nodes, seen, frontier) ==
    IF frontier = {} THEN seen
    ELSE LET new == UNION {Refs(nodes[a]) : a \in frontier} \ seen
         IN ClosureFrom(nodes, seen \cup new, new)

Closure(nodes, S) == ClosureFrom(nodes, S, S)

Collect(t) ==
    LET live == Closure(t.nodes, {t.root})
    IN IF live = DOMAIN t.nodes THEN [t EXCEPT !.log = <<>>]
       ELSE [t EXCEPT !.nodes = [a \in live |-> t.nodes[a]], !.log = <<>>]

----------------------------------------------------------------------------
(* Reading the tree *)

Reach(t) ==
    LET RECURSIVE Down(_)
        Down(S) ==
            LET S2 == S \cup UNION {{t.nodes[a].children[k] :
                                        k \in 1..Len(t.nodes[a].children)} : a \in S}
            IN IF S2 = S THEN S ELSE Down(S2)
    IN Down({t.root})

Leaves(t) == {a \in Reach(t) : t.nodes[a].isLeaf}

RECURSIVE SubtreeKeys(_, _)
SubtreeKeys(t, n) ==
    LET node == t.nodes[n]
    IN IF node.isLeaf THEN {node.keys[k] : k \in 1..Len(node.keys)}
       ELSE UNION {SubtreeKeys(t, node.children[k]) : k \in 1..Len(node.children)}

RECURSIVE Leftmost(_, _)
Leftmost(t, n) ==
    IF t.nodes[n].isLeaf THEN n ELSE Leftmost(t, At(t.nodes[n].children, 0))

(* the leaves met by following next from leaf n, at most fuel of them *)
RECURSIVE ChainFrom(_, _, _)
ChainFrom(t, n, fuel) ==
    IF n = NULL \/ fuel = 0 THEN <<>>
    ELSE <<n>> \o ChainFrom(t, t.nodes[n].next, fuel - 1)

Chain(t) == ChainFrom(t, Leftmost(t, t.root), Cardinality(DOMAIN t.nodes) + 1)

RECURSIVE Flatten(_)
Flatten(ss) == IF ss = <<>> THEN <<>> ELSE Head(ss) \o Flatten(Tail(ss))

ChainKeys(t) == Flatten([k \in 1..Len(Chain(t)) |-> t.nodes[Chain(t)[k]].keys])

RECURSIVE DepthsBelow(_, _, _)
DepthsBelow(t, n, d) ==
    LET node == t.nodes[n]
    IN IF node.isLeaf THEN {d}
       ELSE UNION {DepthsBelow(t, node.children[k], d + 1) : k \in 1..Len(node.children)}

Resident(t, row) ==
    \E a \in DOMAIN t.nodes : \E k \in 1..Len(t.nodes[a].data) :
        \E j \in 1..Len(t.nodes[a].data[k]) : t.nodes[a].data[k][j] = row

----------------------------------------------------------------------------
(* Reference contents: the group each key should hold *)

RECURSIVE Without(_, _)
Without(g, row) ==
    IF g = <<>> THEN <<>>
    ELSE IF Head(g) = row THEN Tail(g)
    ELSE <<Head(g)>> \o Without(Tail(g), row)

RefInsert(r, unique, k, row) ==
    [r EXCEPT ![k] = IF unique THEN <<row>> ELSE Append(@, row)]

RECURSIVE RefInsertAll(_, _, _, _)
RefInsertAll(r, unique, field, rows) ==
    IF rows = <<>> THEN r
    ELSE RefInsertAll(RefInsert(r, unique,
                                IF field = "id" THEN Head(rows).id ELSE Head(rows).age,
                                Head(rows)),
                      unique, field, Tail(rows))

----------------------------------------------------------------------------
(* Serializing the tree for the assistant: JSON.stringify(root, replacer).  *)
(* A document is a record with a kind: "object" with the set of its fields, *)
(* "null", "undefined" (the property is left out), "same" (the replacer     *)
(* hands the value back) and "circular" (JSON.stringify throws on an object *)
(* that is already being serialized).                                       *)

replacer_Mutant(t, key, value) == [kind |-> "same"]

replacer(t, key, value) ==
    IF key = "next"
    THEN IF value # NULL
         THEN [kind |-> "object", fields |-> {"id", "isLeaf"},
               id |-> t.nodes[value].id, isLeaf |-> t.nodes[value].isLeaf]
         ELSE [kind |-> "null"]
    ELSE IF key = "parent" THEN [kind |-> "undefined"]
    ELSE [kind |-> "same"]

(* the document of node n; path holds the nodes being serialized around it *)
RECURSIVE Stringify(_, _, _)
Stringify(t, n, path) ==
    IF n = NULL THEN [kind |-> "null"]
    ELSE IF n \in path THEN [kind |-> "circular"]
    ELSE LET node == t.nodes[n]
             Ref(key, value) ==
                 LET r == replacer(t, key, value)
                 IN IF r.kind = "same" THEN Stringify(t, value, path \cup {n}) ELSE r
             nextDoc == Ref("next", node.next)
             parentDoc == Ref("parent", node.parent)
         IN [kind |-> "object",
             fields |-> {"keys", "children", "isLeaf", "next", "data", "id"}
                        \cup (IF parentDoc.kind = "undefined" THEN {} ELSE {"parent"}),
             keys |-> node.keys,
             children |-> [k \in 1..Len(node.children) |->
                              Stringify(t, node.children[k], path \cup {n})],
             isLeaf |-> node.isLeaf,
             next |-> nextDoc,
             data |-> node.data,
             id |-> node.id,
             parent |-> parentDoc]

treeJson(t) == Stringify(t, t.root, {})

----------------------------------------------------------------------------
(* The assistant service.  Strings are sequences of characters or of text   *)
(* parts; the provider's answer is an input.  The texts of the source that  *)
(* are not ASCII are written here in English.                               *)

AIProvider == {"GEMINI", "SILICONFLOW", "OLLAMA"}

Whitespace == {" ", "\t"}

RECURSIVE trimStart(_)
trimStart(s) ==
    IF s # <<>> /\ Head(s) \in Whitespace THEN trimStart(Tail(s)) ELSE s

RECURSIVE trimEnd(_)
trimEnd(s) ==
    IF s # <<>> /\ s[Len(s)] \in Whitespace THEN trimEnd(SubSeq(s, 1, Len(s) - 1)) ELSE s

trim_Mutant(s) == s

trim(s) == trimEnd(trimStart(s))

MISSING_API_KEY == <<"MISSING_API_KEY">>

(* what the provider does with the request: it answers with a text (maybe  *)
(* empty), answers with an HTTP status that is not ok, or the call rejects *)
(* with an error carrying a message (maybe empty)                          *)
Responses ==
    {[kind |-> "ok", status |-> "200", text |-> x] : x \in {<<"hello">>, <<>>}}
    \cup {[kind |-> "status", status |-> "401", text |-> <<"nope">>]}
    \cup {[kind |-> "reject", status |-> "", text |-> x] :
             x \in {<<"network">>, <<>>, MISSING_API_KEY}}

Returns(text, calls) == [threw |-> FALSE, value |-> text, calls |-> calls]

Throws(message, calls) == [threw |-> TRUE, value |-> message, calls |-> calls]

callGemini(resp) ==
    IF resp.kind = "ok"
    THEN Returns(IF resp.text # <<>> THEN resp.text ELSE <<"no reply generated">>,
                 <<"generateContent">>)
    ELSE Throws(resp.text, <<"generateContent">>)

callOpenAICompatible(resp) ==
    IF resp.kind = "reject" THEN Throws(resp.text, <<"fetch">>)
    ELSE IF resp.kind = "status"
    THEN Throws(<<"API Error ", resp.status, ": ">> \o resp.text, <<"fetch">>)
    ELSE Returns(IF resp.text # <<>> THEN resp.text ELSE <<"no valid reply received">>,
                 <<"fetch">>)

generateExplanation(config, resp) ==
    IF ~config.hasKey \/ config.apiKey = <<>> \/ trim(config.apiKey) = <<>>
    THEN Throws(MISSING_API_KEY, <<>>)
    ELSE LET r == IF config.provider = "GEMINI" THEN callGemini(resp)
                  ELSE callOpenAICompatible(resp)
         IN IF ~r.threw THEN r
            ELSE IF r.value = MISSING_API_KEY THEN r
            ELSE Returns(<<"AI call failed: ">>
                         \o (IF r.value # <<>> THEN r.value ELSE <<"unknown error">>)
                         \o <<". check the configuration (API Key or URL).">>,
                         r.calls)

ApiKeys == {<<>>, <<" ">>, <<" ", "\t">>, <<"k">>, <<" ", "k", " ">>}

AIConfigs ==
    {[provider |-> p, hasKey |-> h, apiKey |-> k] :
        p \in AIProvider, h \in BOOLEAN, k \in ApiKeys}

NotAsked ==
    [asked |-> FALSE, config |-> [provider |-> "GEMINI", hasKey |-> FALSE, apiKey |-> <<>>],
     resp |-> [kind |-> "ok", status |-> "200", text |-> <<>>],
     json |-> [kind |-> "null"], answer |-> Returns(<<>>, <<>>)]

----------------------------------------------------------------------------
(* The App: the table data, the two trees rebuilt from it on every change  *)
(* and the toasts.  A row is its id and its age; the name plays no part.   *)
(* The texts of the source that are not ASCII are written here in English. *)

INITIAL_DATA == <<[id |-> 5, age |-> 25], [id |-> 10, age |-> 30], [id |-> 15, age |-> 22]>>

(* the rows the form and the random button can hand to onAdd *)
AppIds == {5, 10, 15} \cup 1..MaxAppId

AppAges == {22, 25}

AppRows == {[id |-> i, age |-> a] : i \in AppIds, a \in AppAges}

(* the ids pushToast draws: made of the clock and a random number *)
ToastIds == 1..MaxToasts

pkTree(data) == Collect(fromRows(data, "id", TRUE))

secTree(data) == Collect(fromRows(data, "age", FALSE))

(* s.filter(x => x.id !== id) *)
RECURSIVE filterOutId(_, _)
filterOutId(s, id) ==
    IF s = <<>> THEN <<>>
    ELSE (IF Head(s).id # id THEN <<Head(s)>> ELSE <<>>) \o filterOutId(Tail(s), id)

pushToast(a, message, variant, id) ==
    [a EXCEPT !.toasts = Append(@, [id |-> id, message |-> message, variant |-> variant])]

dismissToast(a, id) == [a EXCEPT !.toasts = filterOutId(@, id)]

(* mutant: no id counts as taken *)
IdTaken_Mutant(data, row) == FALSE

IdTaken(data, row) == \E i \in 1..Len(data) : data[i].id = row.id

handleAddRow(a, row, toastId) ==
    IF IdTaken(a.data, row)
    THEN pushToast(a, "ID must be unique.", "error", toastId)
    ELSE [a EXCEPT !.data = Append(@, row)]

handleDeleteRow(a, id) == [a EXCEPT !.data = filterOutId(@, id)]

----------------------------------------------------------------------------
(* Specification: calls of insert and delete on one tree.                  *)
(* Two drivers: "free" interleaves inserts and deletes in any order over   *)
(* the keys 1..MaxFreeKey; "fill" inserts rows in any order over the keys  *)
(* 1..MaxKey, each row once, and then turns to "drain", which deletes once *)
(* per inserted row, in any order; "bulk" builds the tree with fromRows    *)
(* from MaxBulk rows in ascending, descending or alternating key order and *)
(* turns to "drain"; "seq" records in hist the calls made on the tree, at  *)
(* most MaxCalls of them over the keys 1..MaxSeqKey, while a second tree   *)
(* of the same process, other, takes inserts of its own in between; "ai"   *)
(* loads a table and asks the assistant once; "app" is the App with its    *)
(* table: rows are added and deleted, tree is the primary-key tree and     *)
(* other the secondary one, both rebuilt from the table after a change.    *)

Configs == {<<TRUE, "id">>, <<FALSE, "age">>}

RowsOf(ks) == {r \in Rows : r.id \in ks /\ r.age \in ks}

(* a call starts with an empty history *)
Fresh(t) == [t EXCEPT !.did = {}, !.repairs = <<>>, !.log = <<>>]

Diag(k) == [id |-> k, age |-> k]

Ascending == [i \in 1..MaxBulk |-> Diag(i)]

Descending == [i \in 1..MaxBulk |-> Diag(MaxBulk + 1 - i)]

(* 1, MaxBulk, 2, MaxBulk - 1, ... *)
Alternating ==
    [i \in 1..MaxBulk |-> Diag(IF i % 2 = 1 THEN (i + 1) \div 2
                                            ELSE MaxBulk + 1 - (i \div 2))]

BulkLists == {Ascending, Descending, Alternating}

AllRows == Rows \cup {Diag(k) : k \in BulkKeys}

SeqRows == RowsOf(1..MaxSeqKey)

Apply(t, c) ==
    IF c.op = "insert" THEN insert(t, c.row)
    ELSE delete(t, keySelector(t, c.row), c.row)

(* one call on a tree, made when the other trees have created foreign nodes *)
Call(t, c, foreign) ==
    [Collect(Apply([Fresh(t) EXCEPT !.foreign = foreign], c)) EXCEPT !.foreign = 0]

(* the same calls made on a tree when no other tree exists *)
RECURSIVE Replay(_, _)
Replay(t, calls) ==
    IF calls = <<>> THEN t
    ELSE Call(Replay(t, SubSeq(calls, 1, Len(calls) - 1)), calls[Len(calls)], 0)

(* the rows inserted and not deleted since, in the order of their inserts *)
RECURSIVE RemainingRows(_)
RemainingRows(calls) ==
    IF calls = <<>> THEN <<>>
    ELSE LET c == calls[Len(calls)]
             r == RemainingRows(SubSeq(calls, 1, Len(calls) - 1))
         IN IF c.op = "insert" THEN Append(r, c.row) ELSE Without(r, c.row)

Remaining == {RemainingRows(hist)[i] : i \in 1..Len(RemainingRows(hist))}

Init ==
    /\ ref = [k \in Keys \cup BulkKeys |-> <<>>]
    /\ pending = {}
    /\ hist = <<>>
    /\ ai = NotAsked
    /\ app = [data |-> INITIAL_DATA, toasts |-> <<>>]
    /\ \/ /\ phase \in {"free", "fill", "bulk", "seq", "ai"}
          /\ \E c \in Configs : tree = NewTree(c[1], c[2])
          /\ other = NewTree(TRUE, "id")
       \/ /\ phase = "app"
          /\ tree = pkTree(INITIAL_DATA)
          /\ other = secTree(INITIAL_DATA)

Insert(row) ==
    LET t2 == Collect(insert(Fresh(tree), row))
    IN /\ phase = "free"
       /\ tree.uniqueKeys \/ ~Resident(tree, row)
       /\ t2.nodeIdCounter <= MaxFreeNodes
       /\ tree' = t2
       /\ ref' = RefInsert(ref, tree.uniqueKeys, keySelector(tree, row), row)
       /\ UNCHANGED <<phase, pending>>
       /\ UNCHANGED <<hist, other, ai, app>>

DeleteKey(k) ==
    /\ phase = "free"
    /\ tree' = Collect(delete(Fresh(tree), k, NoRow))
    /\ ref' = [ref EXCEPT ![k] = <<>>]
    /\ UNCHANGED <<phase, pending>>
    /\ UNCHANGED <<hist, other, ai, app>>

DeleteRow(k, row) ==
    /\ phase = "free"
    /\ tree' = Collect(delete(Fresh(tree), k, row))
    /\ ref' = [ref EXCEPT ![k] = Without(@, row)]
    /\ UNCHANGED <<phase, pending>>
    /\ UNCHANGED <<hist, other, ai, app>>

FillInsert(row) ==
    LET t2 == Collect(insert(Fresh(tree), row))
    IN /\ phase = "fill"
       /\ row \notin pending
       /\ t2.nodeIdCounter <= MaxNodes
       /\ tree' = t2
       /\ ref' = RefInsert(ref, tree.uniqueKeys, keySelector(tree, row), row)
       /\ pending' = pending \cup {row}
       /\ UNCHANGED phase
       /\ UNCHANGED <<hist, other, ai, app>>

BulkLoad(rows) ==
    /\ phase = "bulk"
    /\ tree' = Collect(fromRows(rows, tree.keyField, tree.uniqueKeys))
    /\ ref' = RefInsertAll(ref, tree.uniqueKeys, tree.keyField, rows)
    /\ pending' = {rows[i] : i \in 1..Len(rows)}
    /\ phase' = "drain"
    /\ UNCHANGED <<hist, other, ai, app>>

StartDrain ==
    /\ phase = "fill"
    /\ phase' = "drain"
    /\ UNCHANGED <<tree, ref, pending>>
    /\ UNCHANGED <<hist, other, ai, app>>

DrainDelete(row, withRow) ==
    LET k == keySelector(tree, row)
    IN /\ phase = "drain"
       /\ row \in pending
       /\ tree' = Collect(delete(Fresh(tree), k, IF withRow THEN row ELSE NoRow))
       /\ ref' = [ref EXCEPT ![k] = IF withRow THEN Without(@, row) ELSE <<>>]
       /\ pending' = pending \ {row}
       /\ UNCHANGED phase
       /\ UNCHANGED <<hist, other, ai, app>>

SeqInsert(row) ==
    /\ phase = "seq"
    /\ Len(hist) < MaxCalls
    /\ row \notin Remaining
    /\ tree' = Call(tree, [op |-> "insert", row |-> row], other.nodeIdCounter)
    /\ hist' = Append(hist, [op |-> "insert", row |-> row])
    /\ UNCHANGED <<ref, phase, pending, other, ai, app>>

SeqDelete(row) ==
    /\ phase = "seq"
    /\ Len(hist) < MaxCalls
    /\ row \in Remaining
    /\ tree' = Call(tree, [op |-> "delete", row |-> row], other.nodeIdCounter)
    /\ hist' = Append(hist, [op |-> "delete", row |-> row])
    /\ UNCHANGED <<ref, phase, pending, other, ai, app>>

(* the other tree takes the keys 1, 2, ... in turn *)
OtherInsert(k) ==
    /\ phase = "seq"
    /\ k = Cardinality(SubtreeKeys(other, other.root)) + 1
    /\ other' = Call(other, [op |-> "insert", row |-> Diag(k)], tree.nodeIdCounter)
    /\ UNCHANGED <<tree, ref, phase, pending, hist, ai, app>>

(* the App's table is loaded and its tree rebuilt *)
AiLoad ==
    /\ phase = "ai"
    /\ ~ai.asked
    /\ tree.nodeIdCounter = 1
    /\ \E rows \in BulkLists :
          /\ tree' = Collect(fromRows(rows, tree.keyField, tree.uniqueKeys))
          /\ ref' = RefInsertAll(ref, tree.uniqueKeys, tree.keyField, rows)
    /\ UNCHANGED <<phase, pending, hist, other, ai, app>>

(* handleAskAI: serialize the root, then ask the service *)
AskAI ==
    /\ phase = "ai"
    /\ ~ai.asked
    /\ \E config \in AIConfigs, resp \in Responses :
          ai' = [asked |-> TRUE, config |-> config, resp |-> resp,
                 json |-> treeJson(tree), answer |-> generateExplanation(config, resp)]
    /\ UNCHANGED <<tree, ref, phase, pending, hist, other, app>>

(* the table changed: the two trees are built anew from it *)
Rerender ==
    IF app'.data = app.data THEN UNCHANGED <<tree, other>>
    ELSE tree' = pkTree(app'.data) /\ other' = secTree(app'.data)

(* the form or the random button hands a row to handleAddRow *)
AddRow ==
    /\ phase = "app"
    /\ \E row \in AppRows, toastId \in ToastIds :
          /\ IdTaken(app.data, row) => Len(app.toasts) < MaxToasts
          /\ app' = handleAddRow(app, row, toastId)
    /\ Rerender
    /\ UNCHANGED <<ref, phase, pending, hist, ai>>

(* the delete button of a row of the table *)
RemoveRow ==
    /\ phase = "app"
    /\ \E i \in 1..Len(app.data) : app' = handleDeleteRow(app, app.data[i].id)
    /\ Rerender
    /\ UNCHANGED <<ref, phase, pending, hist, ai>>

(* the timer of a toast runs out, or the toast is closed *)
ToastGone ==
    /\ phase = "app"
    /\ \E i \in 1..Len(app.toasts) : app' = dismissToast(app, app.toasts[i].id)
    /\ UNCHANGED <<tree, ref, phase, pending, hist, other, ai>>

Next ==
    \/ \E row \in RowsOf(1..MaxFreeKey) : Insert(row)
    \/ \E k \in 1..MaxFreeKey : DeleteKey(k)
    \/ \E row \in RowsOf(1..MaxFreeKey) : DeleteRow(keySelector(tree, row), row)
    \/ \E row \in Rows : FillInsert(row)
    \/ \E rows \in BulkLists : BulkLoad(rows)
    \/ StartDrain
    \/ \E row \in AllRows, withRow \in BOOLEAN : DrainDelete(row, withRow)
    \/ \E row \in SeqRows : SeqInsert(row)
    \/ \E row \in SeqRows : SeqDelete(row)
    \/ \E k \in 1..MaxOther : OtherInsert(k)
    \/ AiLoad
    \/ AskAI
    \/ AddRow
    \/ RemoveRow
    \/ ToastGone

Spec == Init /\ [][Next]_vars

----------------------------------------------------------------------------
(* Shorthands for the properties *)

N(a) == tree.nodes[a]

ResidentKeys == SubtreeKeys(tree, tree.root)

(* the key slots <<leaf, index>> that hold key k *)
SlotsOf(k) ==
    {s \in UNION {{<<a, i>> : i \in 1..Len(N(a).keys)} : a \in Leaves(tree)} :
        N(s[1]).keys[s[2]] = k}

StrictlyAscending(s) == \A i \in 1..(Len(s) - 1) : s[i] < s[i + 1]

(* C1: every resident key occurs in exactly one leaf, in exactly one key slot *)
C1_OneSlotPerKey == \A k \in ResidentKeys : Cardinality(SlotsOf(k)) = 1

(* C2: keys under children[i] are < keys[i], keys under children[i+1] are >= keys[i] *)
C2_SeparatorInvariant ==
    \A a \in Reach(tree) :
        ~N(a).isLeaf =>
            \A i \in 1..Len(N(a).keys) :
                /\ i + 1 <= Len(N(a).children)
                /\ \A k \in SubtreeKeys(tree, N(a).children[i]) : k < N(a).keys[i]
                /\ \A k \in SubtreeKeys(tree, N(a).children[i + 1]) : k >= N(a).keys[i]

(* C3: under unique policy, after inserts only, every inserted key has exactly
   one slot and its group is the single row of the latest insert of that key *)
C3_UniqueLastWins ==
    (phase = "fill" /\ tree.uniqueKeys) =>
        \A k \in Keys :
            ref[k] # <<>> =>
                /\ Cardinality(SlotsOf(k)) = 1
                /\ \A sl \in SlotsOf(k) : N(sl[1]).data[sl[2]] = ref[k]

(* C4: under non-unique policy, after inserts only, every inserted key has
   exactly one slot and its group is the rows inserted with that key, in order *)
C4_GroupInInsertionOrder ==
    (phase = "fill" /\ ~tree.uniqueKeys) =>
        \A k \in Keys :
            ref[k] # <<>> =>
                /\ Cardinality(SlotsOf(k)) = 1
                /\ \A sl \in SlotsOf(k) : N(sl[1]).data[sl[2]] = ref[k]

(* C5: the walk along next from the leftmost leaf visits every reachable leaf
   once and yields every resident key once, strictly ascending *)
C5_ChainIntegrity ==
    /\ {Chain(tree)[i] : i \in 1..Len(Chain(tree))} = Leaves(tree)
    /\ Len(Chain(tree)) = Cardinality(Leaves(tree))
    /\ StrictlyAscending(ChainKeys(tree))
    /\ {ChainKeys(tree)[i] : i \in 1..Len(ChainKeys(tree))} = ResidentKeys

(* C6: non-root nodes hold 1..3 keys; the root holds at most 3, zero only as a leaf *)
C6_KeyCounts ==
    \A a \in Reach(tree) :
        IF a = tree.root
        THEN Len(N(a).keys) <= ORDER - 1 /\ (Len(N(a).keys) = 0 => N(a).isLeaf)
        ELSE Len(N(a).keys) >= MIN_KEYS /\ Len(N(a).keys) <= ORDER - 1

C6_Witness ==
    /\ "borrowRightInternal" \in tree.did
    /\ \E a \in Reach(tree) \ {tree.root} :
          ~N(a).isLeaf /\ Len(N(a).keys) = MIN_KEYS

(* C7: all leaves reachable from the root are at the same depth *)
C7_EqualDepth == Cardinality(DepthsBelow(tree, tree.root, 0)) = 1

C7_Witness ==
    /\ "mergeRightInternal" \in tree.did
    /\ "collapse" \in tree.did
    /\ ~N(tree.root).isLeaf

(* C8: the root has no parent, every listed child names its lister as parent,
   and every non-root node is listed exactly once by its parent *)
C8_ParentChildren ==
    /\ N(tree.root).parent = NULL
    /\ \A a \in Reach(tree) :
          \A i \in 1..Len(N(a).children) : N(N(a).children[i]).parent = a
    /\ \A a \in Reach(tree) \ {tree.root} :
          /\ N(a).parent \in Reach(tree)
          /\ Cardinality({i \in 1..Len(N(N(a).parent).children) :
                             N(N(a).parent).children[i] = a}) = 1

C8_Witness ==
    /\ "borrowLeftInternal" \in tree.did
    /\ \E a \in Reach(tree) \ {tree.root} :
          /\ ~N(a).isLeaf
          /\ \A i \in 1..Len(N(a).children) : N(N(a).children[i]).parent = a

(* C9: keys strictly ascending in every node, one non-empty group per leaf key,
   len(keys)+1 children in every internal node *)
C9_NodeShape ==
    \A a \in Reach(tree) :
        /\ StrictlyAscending(N(a).keys)
        /\ N(a).isLeaf =>
              /\ Len(N(a).data) = Len(N(a).keys)
              /\ \A i \in 1..Len(N(a).data) : N(a).data[i] # <<>>
        /\ ~N(a).isLeaf => Len(N(a).children) = Len(N(a).keys) + 1

(* C10: rows inserted in any order and then deleted one per row, in any order,
   leave a root that is a leaf with zero keys and zero data groups *)
C10_RoundTripEmpty ==
    (phase = "drain" /\ pending = {}) =>
        /\ N(tree.root).isLeaf
        /\ N(tree.root).keys = <<>>
        /\ N(tree.root).data = <<>>

(* the result of one call on the tree of the current state *)
AfterInsert(row) == Collect(insert(Fresh(tree), row))

AfterDelete(k, row) == Collect(delete(Fresh(tree), k, row))

KeysOf(t) == SubtreeKeys(t, t.root)

(* the same tree: root and every node's keys, data, children, parent, next *)
Same(t1, t2) == t1.nodes = t2.nodes /\ t1.root = t2.root

InGroup(t, k, row) ==
    \E a \in Leaves(t) : \E i \in 1..Len(t.nodes[a].keys) :
        /\ t.nodes[a].keys[i] = k
        /\ \E j \in 1..Len(t.nodes[a].data[i]) : t.nodes[a].data[i][j] = row

(* C11: under the unique policy, in every state insert and delete(key) calls
   lead to, a call of delete(k) takes k and no other key out of the set of
   keys stored in the leaves, and a call of insert adds the key of its row
   and no other key: the stored set is the set of the keys inserted and not
   deleted since *)
C11_KeySetFollowsCalls ==
    tree.uniqueKeys =>
        /\ \A k \in Keys : KeysOf(AfterDelete(k, NoRow)) = ResidentKeys \ {k}
        /\ \A row \in Rows :
              KeysOf(AfterInsert(row)) = ResidentKeys \cup {keySelector(tree, row)}

(* C12: a call of delete(key) with a key that is not resident, and a call
   of delete(key, row) with a row that is not in the group of key, leave
   the whole tree as it was *)
C12_AbsentTargetNoOp ==
    /\ \A k \in Keys :
          k \notin ResidentKeys => Same(AfterDelete(k, NoRow), tree)
    /\ \A k \in Keys, row \in Rows :
          ~InGroup(tree, k, row) => Same(AfterDelete(k, row), tree)

(* C13: no call of insert or delete, in any state such calls lead to, ends
   in an error: no step of it reads a child, a parent or a sibling that
   does not exist *)
C13_NoCallThrows == ~Threw(tree)

C13_Witness ==
    /\ ~Threw(tree)
    /\ {"mergeLeftInternal", "collapse"} \subseteq tree.did
    /\ \E a \in Leaves(tree) : N(a).parent # NULL /\ N(a).next = NULL

(* the key slots of the leaves: key and group *)
Slots(t) ==
    UNION {{<<t.nodes[a].keys[i], t.nodes[a].data[i]>> : i \in 1..Len(t.nodes[a].keys)} :
              a \in Leaves(t)}

(* C14: a call of delete(key, row) with row in the group of key takes that
   one row out of the group, keeps the other rows of the group in their
   order, and removes the key slot exactly when the group became empty;
   no other slot changes *)
C14_DeleteRowExact ==
    \A s \in Slots(tree) : \A j \in 1..Len(s[2]) :
        LET g2 == Without(s[2], s[2][j])
        IN Slots(AfterDelete(s[1], s[2][j])) =
              (Slots(tree) \ {s}) \cup (IF g2 = <<>> THEN {} ELSE {<<s[1], g2>>})

(* C15: delete(key, row) removes the given row and no other: a row of the
   group of key that is not the given row stays in the group, also when it
   carries the id of the given row *)
C15_RowIdentity ==
    \A k \in Keys, row \in Rows, r \in Rows :
        (r # row /\ r.id = row.id /\ InGroup(tree, k, r))
           => InGroup(AfterDelete(k, row), k, r)

(* the calls of hist are inserts only, and the rows they inserted *)
OnlyInserts == \A i \in 1..Len(hist) : hist[i].op = "insert"

HistRows == [i \in 1..Len(hist) |-> hist[i].row]

(* C16: fromRows over a row list yields the tree, node ids included, that
   a new tree becomes when insert is called for each row in the order of
   the list; the list is inserted as given, unsorted and unchanged *)
C16_FromRowsIsInsertInOrder ==
    (phase = "seq" /\ OnlyInserts) =>
        LET built == Collect(fromRows(HistRows, tree.keyField, tree.uniqueKeys))
        IN /\ Same(built, tree)
           /\ built.nodeIdCounter = tree.nodeIdCounter
           /\ rowsToInsert(HistRows, tree.keyField) = HistRows

C16_Witness ==
    /\ phase = "seq" /\ OnlyInserts
    /\ ~N(tree.root).isLeaf
    /\ \E i \in 1..(Len(hist) - 1) :
          keySelector(tree, hist[i].row) > keySelector(tree, hist[i + 1].row)
    /\ Same(Collect(fromRows(HistRows, tree.keyField, tree.uniqueKeys)), tree)

(* the six invariants of the data model, of any tree t *)
Inv1_KeyCounts(t) ==
    \A a \in Reach(t) \ {t.root} :
        Len(t.nodes[a].keys) >= MIN_KEYS /\ Len(t.nodes[a].keys) <= ORDER - 1

Inv2_EqualDepth(t) == Cardinality(DepthsBelow(t, t.root, 0)) = 1

Inv3_Separators(t) ==
    \A a \in Reach(t) :
        ~t.nodes[a].isLeaf =>
            \A i \in 1..Len(t.nodes[a].keys) :
                /\ i + 1 <= Len(t.nodes[a].children)
                /\ \A k \in SubtreeKeys(t, t.nodes[a].children[i]) :
                      k < t.nodes[a].keys[i]
                /\ \A k \in SubtreeKeys(t, t.nodes[a].children[i + 1]) :
                      k >= t.nodes[a].keys[i]

Inv4_OneLeafPerKey(t) ==
    \A k \in KeysOf(t) :
        Cardinality({a \in Leaves(t) :
                        \E i \in 1..Len(t.nodes[a].keys) : t.nodes[a].keys[i] = k}) = 1

Inv5_Chain(t) ==
    /\ StrictlyAscending(ChainKeys(t))
    /\ {ChainKeys(t)[i] : i \in 1..Len(ChainKeys(t))} = KeysOf(t)

Inv6_Parents(t) ==
    /\ t.nodes[t.root].parent = NULL
    /\ \A a \in Reach(t) :
          \A i \in 1..Len(t.nodes[a].children) :
              t.nodes[t.nodes[a].children[i]].parent = a
    /\ \A a \in Reach(t) \ {t.root} :
          /\ t.nodes[a].parent \in Reach(t)
          /\ \E i \in 1..Len(t.nodes[t.nodes[a].parent].children) :
                t.nodes[t.nodes[a].parent].children[i] = a

WellFormed(t) ==
    /\ Inv1_KeyCounts(t) /\ Inv2_EqualDepth(t) /\ Inv3_Separators(t)
    /\ Inv4_OneLeafPerKey(t) /\ Inv5_Chain(t) /\ Inv6_Parents(t)

(* the key slots met along the leaf chain: <<key, group>> *)
ChainEntries(t) ==
    Flatten([k \in 1..Len(Chain(t)) |->
                [i \in 1..Len(t.nodes[Chain(t)[k]].keys) |->
                    <<t.nodes[Chain(t)[k]].keys[i], t.nodes[Chain(t)[k]].data[i]>>]])

(* no insert follows a delete in hist *)
InsertsThenDeletes ==
    \A i \in 1..Len(hist), j \in 1..Len(hist) :
        (i < j /\ hist[i].op = "delete") => hist[j].op = "delete"

(* C17: the tree obtained by inserting the rows of a list and then deleting
   some of them with delete(key, row), and the tree fromRows builds from the
   rows that remain, both satisfy the invariants 1 to 6 and hold the same
   keys with the same groups in the same order on their leaf chains *)
C17_IncrementalMatchesRebuild ==
    (phase = "seq" /\ InsertsThenDeletes) =>
        LET rebuilt == Collect(fromRows(RemainingRows(hist), tree.keyField,
                                        tree.uniqueKeys))
        IN /\ WellFormed(tree)
           /\ WellFormed(rebuilt)
           /\ ChainEntries(tree) = ChainEntries(rebuilt)

(* the root of t is internal with one separator and two leaf children that
   hold exactly the keys ks, in 4 key slots *)
TwoLeavesUnderRoot(t, ks) ==
    LET r == t.nodes[t.root]
    IN /\ ~r.isLeaf
       /\ Len(r.keys) = 1
       /\ Len(r.children) = 2
       /\ t.nodes[r.children[1]].isLeaf /\ t.nodes[r.children[2]].isLeaf
       /\ Len(t.nodes[r.children[1]].keys) + Len(t.nodes[r.children[2]].keys) = ORDER
       /\ KeysOf(t) = ks

(* C18: when the root is a leaf holding 3 keys, the insert of a row with a
   new key, wherever the key falls among the 3, yields an internal root with
   one separator and two leaf children that together hold the 4 keys *)
C18_FirstRootSplit ==
    (N(tree.root).isLeaf /\ Len(N(tree.root).keys) = ORDER - 1) =>
        \A row \in Rows :
            keySelector(tree, row) \notin ResidentKeys =>
                TwoLeavesUnderRoot(AfterInsert(row),
                                   ResidentKeys \cup {keySelector(tree, row)})

C18_Witness ==
    /\ {"splitRoot", "splitLeaf"} \subseteq tree.did
    /\ Cardinality(ResidentKeys) = ORDER
    /\ TwoLeavesUnderRoot(tree, ResidentKeys)

UniqueIds(t) ==
    \A a \in Reach(t), b \in Reach(t) : a # b => t.nodes[a].id # t.nodes[b].id

(* C19: no two nodes reachable from the root have the same id, and a node
   keeps its id as long as it exists *)
C19_IdsUniqueAndStable ==
    /\ UniqueIds(tree)
    /\ [][/\ UniqueIds(tree')
          /\ \A a \in DOMAIN tree.nodes \cap DOMAIN tree'.nodes :
                tree'.nodes[a].id = tree.nodes[a].id]_vars

C19_Witness ==
    /\ UniqueIds(tree)
    /\ "mergeRightLeaf" \in tree.did
    /\ Cardinality(Reach(tree)) >= 3
    /\ Cardinality(Reach(tree)) < tree.nodeIdCounter

(* C20: the id counter belongs to the tree: a tree on which the calls of
   hist were made while another tree of the process took calls of its own
   in between has the shape and the node ids of a tree on which the same
   calls are made alone *)
C20_CounterPerInstance ==
    phase = "seq" =>
        LET alone == Replay(NewTree(tree.uniqueKeys, tree.keyField), hist)
        IN /\ Same(tree, alone)
           /\ tree.nodeIdCounter = alone.nodeIdCounter

C20_Witness ==
    /\ phase = "seq"
    /\ other.nodeIdCounter >= 3
    /\ tree.nodeIdCounter >= 3
    /\ \E i \in 1..Len(hist) : hist[i].op = "delete"
    /\ Same(tree, Replay(NewTree(tree.uniqueKeys, tree.keyField), hist))

----------------------------------------------------------------------------
(* Serialization and the assistant service *)

(* a document that holds no parent field and in which every next is null   *)
(* or an object of exactly the fields id and isLeaf, at every depth        *)
RECURSIVE Stripped(_)
Stripped(doc) ==
    /\ doc.kind = "object"
    /\ "parent" \notin doc.fields
    /\ doc.next.kind \in {"null", "object"}
    /\ doc.next.kind = "object" =>
           /\ doc.next.fields = {"id", "isLeaf"}
           /\ DOMAIN doc.next = {"kind", "fields", "id", "isLeaf"}
    /\ \A k \in 1..Len(doc.children) : Stripped(doc.children[k])

(* the node documents of a document *)
RECURSIVE NodeDocs(_)
NodeDocs(doc) ==
    {doc} \cup UNION {NodeDocs(doc.children[k]) : k \in 1..Len(doc.children)}

(* C21: serializing the root of any reachable tree as the App does ends    *)
(* without meeting a cycle, emits no parent field, and emits for every     *)
(* next reference null or the id and the leaf flag of the next leaf and    *)
(* nothing else of it; one node document is emitted per reachable node.    *)
C21_SerializationStripped ==
    LET doc == treeJson(tree)
    IN /\ Stripped(doc)
       /\ {d.id : d \in NodeDocs(doc)} = {N(a).id : a \in Reach(tree)}
       /\ \A a \in Leaves(tree) : \A d \in NodeDocs(doc) :
              d.id = N(a).id =>
                  IF N(a).next = NULL THEN d.next.kind = "null"
                  ELSE /\ d.next.kind = "object"
                       /\ d.next.id = N(N(a).next).id
                       /\ d.next.isLeaf = N(N(a).next).isLeaf

C21_Witness ==
    /\ ai.asked
    /\ ai.json = treeJson(tree)
    /\ ~N(tree.root).isLeaf
    /\ \E d \in NodeDocs(ai.json) : d.isLeaf /\ d.next.kind = "object"
    /\ \E d \in NodeDocs(ai.json) : d.isLeaf /\ d.next.kind = "null"

(* an apiKey that is missing, empty or made of whitespace only *)
Blank(config) ==
    ~config.hasKey \/ \A i \in 1..Len(config.apiKey) : config.apiKey[i] \in Whitespace

(* C22: generateExplanation with an apiKey that is empty or only           *)
(* whitespace fails with MISSING_API_KEY before any provider call, for     *)
(* every provider; with a usable apiKey, a provider call that fails for    *)
(* another reason yields a failure text as the result, not an error.       *)
C22_MissingKeyThenFailureText ==
    ai.asked =>
        /\ Blank(ai.config) => ai.answer = Throws(MISSING_API_KEY, <<>>)
        /\ (~Blank(ai.config) /\ ai.resp.kind # "ok" /\ ai.resp.text # MISSING_API_KEY) =>
               /\ ~ai.answer.threw
               /\ Len(ai.answer.calls) = 1
               /\ Head(ai.answer.value) = "AI call failed: "

C22_Witness ==
    /\ ai.asked
    /\ ai.config.hasKey
    /\ ai.config.apiKey = <<" ", "\t">>
    /\ ai.config.provider = "OLLAMA"
    /\ ai.answer = Throws(MISSING_API_KEY, <<>>)

----------------------------------------------------------------------------
(* Routing, borrowing and repair *)

(* the row is in the group of key k in leaf a *)
InLeafGroup(t, a, k, row) ==
    /\ a # NULL
    /\ \E i \in 1..Len(t.nodes[a].keys) :
          /\ t.nodes[a].keys[i] = k
          /\ \E j \in 1..Len(t.nodes[a].data[i]) : t.nodes[a].data[i][j] = row

(* C23: for every insert, in every state insert and delete calls lead to,  *)
(* the leaf in which the row is placed is the leaf that leaf lookup        *)
(* returns for its key right after the insert, also when the descent split *)
(* a full child and the key equals the separator just promoted.            *)
C23_PlacedWhereLookupLeads ==
    \A row \in Rows :
        LET t2 == AfterInsert(row)
            k == keySelector(tree, row)
        IN InLeafGroup(t2, searchLeafNode(t2, k), k, row)

Borrowed(r) == r.choice \in {"borrowLeft", "borrowRight"}

Merged(r) == r.choice \in {"mergeLeft", "mergeRight"}

(* the sibling a borrow took from, in the tree after the call *)
DonorOf(r) ==
    LET cs == N(r.parent).children
        idx == IndexOf(cs, r.node)
    IN At(cs, IF r.choice = "borrowLeft" THEN idx - 1 ELSE idx + 1)

(* C24: a borrow never leaves the donor below the minimum: the donor held  *)
(* more than MIN_KEYS keys when it was chosen and holds at least MIN_KEYS  *)
(* after the call, a repair with no such sibling is a merge, and the       *)
(* branch of borrowFromRight that finds the right sibling empty after the  *)
(* borrow is never taken.                                                  *)
C24_DonorKeepsMinimum ==
    /\ "donorEmptied" \notin tree.did
    /\ \A i \in 1..Len(tree.repairs) :
          LET r == tree.repairs[i]
          IN /\ r.choice = "borrowLeft" => r.leftKeys > MIN_KEYS
             /\ r.choice = "borrowRight" => r.rightKeys > MIN_KEYS
             /\ Borrowed(r) => Len(N(DonorOf(r)).keys) >= MIN_KEYS
             /\ Merged(r) => r.leftKeys <= MIN_KEYS /\ r.rightKeys <= MIN_KEYS

C24_Witness ==
    /\ "borrowRightLeaf" \in tree.did
    /\ Len(tree.repairs) = 1
    /\ tree.repairs[1].choice = "borrowRight"
    /\ tree.repairs[1].rightKeys = MIN_KEYS + 1
    /\ Len(N(DonorOf(tree.repairs[1])).keys) = MIN_KEYS

(* the tags of the repair carried out for a choice *)
TagsOf(choice) ==
    IF choice = "borrowLeft" THEN {"borrowLeftLeaf", "borrowLeftInternal"}
    ELSE IF choice = "borrowRight" THEN {"borrowRightLeaf", "borrowRightInternal"}
    ELSE IF choice = "mergeLeft" THEN {"mergeLeftLeaf", "mergeLeftInternal"}
    ELSE {"mergeRightLeaf", "mergeRightInternal"}

(* C25: the repair of an underflowing node is chosen in a fixed order:     *)
(* borrow from the left sibling if it exists and holds more than 1 key,    *)
(* else borrow from the right sibling if it exists and holds more than 1   *)
(* key, else merge with the left sibling if it exists, else merge with the *)
(* right sibling; with a surplus on both sides the left one is the donor.  *)
C25_RepairOrder ==
    \A i \in 1..Len(tree.repairs) :
        LET r == tree.repairs[i]
        IN /\ r.choice = IF r.leftKeys > 1 THEN "borrowLeft"
                         ELSE IF r.rightKeys > 1 THEN "borrowRight"
                         ELSE IF r.leftKeys >= 0 THEN "mergeLeft"
                         ELSE "mergeRight"
           /\ TagsOf(r.choice) \cap tree.did # {}

C25_Witness ==
    /\ Len(tree.repairs) = 1
    /\ tree.repairs[1].leftKeys > 1
    /\ tree.repairs[1].rightKeys > 1
    /\ tree.repairs[1].choice = "borrowLeft"
    /\ "borrowLeftLeaf" \in tree.did

Min(S) == CHOOSE x \in S : \A y \in S : x <= y

(* from node n up to the root: the separator left of each node that is not *)
(* a leftmost child is the smallest key of the node's subtree              *)
RECURSIVE PathRefreshed(_, _)
PathRefreshed(t, n) ==
    LET p == t.nodes[n].parent
    IN IF p = NULL THEN TRUE
       ELSE LET idx == IndexOf(t.nodes[p].children, n)
            IN /\ idx >= 0
               /\ idx > 0 => /\ SubtreeKeys(t, n) # {}
                             /\ At(t.nodes[p].keys, idx - 1) = Min(SubtreeKeys(t, n))
               /\ PathRefreshed(t, p)

(* the calls delete(key) and delete(key of row, row) *)
DeleteCalls ==
    {<<k, NoRow>> : k \in Keys} \cup {<<keySelector(tree, row), row>> : row \in Rows}

(* the call changed the tree, made no repair and ended without an error *)
QuietDelete(fin) ==
    fin.nodes # tree.nodes /\ fin.repairs = <<>> /\ ~Threw(fin)

(* C26: after a call of delete that removed something from a leaf and      *)
(* caused no underflow, on the path from that leaf to the root the         *)
(* separator left of every node that is not a leftmost child equals the    *)
(* smallest key of that node's subtree; when the first key of such a leaf  *)
(* was deleted, the separator is the leaf's new first key.                 *)
C26_SeparatorsRefreshed ==
    \A c \in DeleteCalls :
        LET fin == delete(Fresh(tree), c[1], c[2])
        IN QuietDelete(fin) => PathRefreshed(fin, searchLeafNode(tree, c[1]))

(* a delete(k) of the first key k of a leaf that is not a leftmost child:  *)
(* the separator was k and is the leaf's new first key after the call      *)
C26_Witness ==
    \E k \in Keys :
        LET fin == delete(Fresh(tree), k, NoRow)
            n == searchLeafNode(tree, k)
            p == N(n).parent
            idx == IF p = NULL THEN -1 ELSE IndexOf(N(p).children, n)
        IN /\ QuietDelete(fin)
           /\ idx > 0
           /\ Head(N(n).keys) = k
           /\ At(N(p).keys, idx - 1) = k
           /\ At(fin.nodes[p].keys, idx - 1) = Head(fin.nodes[n].keys)
           /\ Head(fin.nodes[n].keys) > k
           /\ PathRefreshed(fin, n)

RECURSIVE HeightFrom(_, _)
HeightFrom(t, n) ==
    IF t.nodes[n].isLeaf \/ t.nodes[n].children = <<>> THEN 1
    ELSE 1 + HeightFrom(t, At(t.nodes[n].children, 0))

Height(t) == HeightFrom(t, t.root)

(* C27: underflow handling after a delete makes at most one repair per     *)
(* level: it starts at a leaf, every repair but                            *)
(* the last is a merge and is followed by the repair of the parent, each   *)
(* repaired node held no key; after a last merge the parent is the root or *)
(* holds at least MIN_KEYS keys; when it ends no node but the root holds   *)
(* fewer than MIN_KEYS keys.                                               *)
C27_UnderflowEnds ==
    LET rs == tree.repairs
    IN /\ \A i \in 1..Len(rs) : rs[i].isLeaf <=> i = 1
       /\ \A i \in 1..Len(rs) : rs[i].keys < MIN_KEYS
       /\ \A i \in 1..(Len(rs) - 1) : Merged(rs[i]) /\ rs[i + 1].node = rs[i].parent
       /\ Len(rs) <= Height(tree) - 1 + (IF "collapse" \in tree.did THEN 1 ELSE 0)
       /\ (rs # <<>> /\ Merged(rs[Len(rs)])) =>
              LET p == rs[Len(rs)].parent
              IN \/ p \notin Reach(tree)
                 \/ p = tree.root
                 \/ Len(N(p).keys) >= MIN_KEYS
       /\ \A a \in Reach(tree) \ {tree.root} : Len(N(a).keys) >= MIN_KEYS

C27_Witness ==
    /\ Len(tree.repairs) = 2
    /\ Merged(tree.repairs[1])
    /\ Borrowed(tree.repairs[2])
    /\ tree.repairs[2].node = tree.repairs[1].parent
    /\ \A a \in Reach(tree) \ {tree.root} : Len(N(a).keys) >= MIN_KEYS

(* C28: after every delete the root is not an internal node without keys   *)
(* and has no parent; a call of delete(key) or of delete(key of row, row)  *)
(* lowers the height by one when it replaces the root by its only child    *)
(* and leaves the height as it was otherwise.                              *)
C28_RootCollapse ==
    /\ ~(~N(tree.root).isLeaf /\ Len(N(tree.root).keys) = 0)
    /\ N(tree.root).parent = NULL
    /\ \A c \in DeleteCalls :
          LET t2 == AfterDelete(c[1], c[2])
          IN /\ Height(t2) = Height(tree) - (IF "collapse" \in t2.did THEN 1 ELSE 0)
             /\ ~(~t2.nodes[t2.root].isLeaf /\ Len(t2.nodes[t2.root].keys) = 0)
             /\ t2.nodes[t2.root].parent = NULL

C28_Witness ==
    /\ "collapse" \in tree.did
    /\ ~N(tree.root).isLeaf
    /\ Len(N(tree.root).keys) > 0
    /\ N(tree.root).parent = NULL
    /\ Height(tree) = 2

(* C29: an insert raises the height by one when the root holds ORDER - 1   *)
(* keys at the call and leaves it as it was otherwise; on the way down a   *)
(* node is split exactly when it holds ORDER - 1 keys, and no node holds   *)
(* ORDER keys, during the insert or after it.                              *)
C29_HeightGrowsOnFullRoot ==
    /\ \A a \in Reach(tree) : Len(N(a).keys) <= ORDER - 1
    /\ \A row \in Rows :
          LET t2 == AfterInsert(row)
          IN /\ Height(t2) = Height(tree)
                                + (IF Len(N(tree.root).keys) = ORDER - 1 THEN 1 ELSE 0)
             /\ t2.did \cap {"overfull", "enteredFull", "splitNotFull"} = {}

C29_Witness ==
    /\ {"splitRoot", "splitInternal", "splitLeaf"} \subseteq tree.did
    /\ Height(tree) = 3
    /\ \A a \in Reach(tree) : Len(N(a).keys) <= ORDER - 1

(* the tree in the middle of a call of delete: after the removal from the  *)
(* leaf and the refresh of the separators, before the repair               *)
BeforeRepair(k, row) ==
    LET n == searchLeafNode(tree, k)
    IN refreshSeparatorsUpward(deleteFromLeaf(Fresh(tree), n, k, row).t, n)

(* a leaf borrow seen from both ends: mid is the tree before the repair,   *)
(* fin the tree after the call.  One (key, group) pair has gone from the   *)
(* donor's near end to the receiver's matching end, the parent has changed *)
(* in one separator at most, which is now sep, and no other node changed.  *)
LeafBorrow(mid, fin, leaf, sepOf(_, _, _)) ==
    LET parent == mid.nodes[leaf].parent
        idx == IndexOf(mid.nodes[parent].children, leaf)
        fromLeft == "borrowLeftLeaf" \in fin.did
        donor == At(mid.nodes[parent].children, IF fromLeft THEN idx - 1 ELSE idx + 1)
        sepIdx == IF fromLeft THEN idx - 1 ELSE idx
        d0 == mid.nodes[donor]
        d1 == fin.nodes[donor]
        r0 == mid.nodes[leaf]
        r1 == fin.nodes[leaf]
        m == Len(d0.keys)
    IN /\ IF fromLeft
          THEN /\ d1.keys = Upto(d0.keys, m - 1)
               /\ d1.data = Upto(d0.data, m - 1)
               /\ r1.keys = <<d0.keys[m]>> \o r0.keys
               /\ r1.data = <<d0.data[m]>> \o r0.data
          ELSE /\ d1.keys = Tail(d0.keys)
               /\ d1.data = Tail(d0.data)
               /\ r1.keys = Append(r0.keys, Head(d0.keys))
               /\ r1.data = Append(r0.data, Head(d0.data))
       /\ d1 = [d0 EXCEPT !.keys = d1.keys, !.data = d1.data]
       /\ r1 = [r0 EXCEPT !.keys = r1.keys, !.data = r1.data]
       /\ fin.nodes[parent] =
              [mid.nodes[parent] EXCEPT
                  !.keys = SetAt(@, sepIdx, At(fin.nodes[parent].keys, sepIdx))]
       /\ At(fin.nodes[parent].keys, sepIdx) = sepOf(fromLeft, d1, r1)
       /\ fin.root = mid.root
       /\ DOMAIN fin.nodes = DOMAIN mid.nodes
       /\ \A a \in DOMAIN mid.nodes \ {donor, leaf, parent} : fin.nodes[a] = mid.nodes[a]

EveryLeafBorrow(sepOf(_, _, _)) ==
    \A c \in DeleteCalls :
        LET fin == delete(Fresh(tree), c[1], c[2])
        IN fin.did \cap {"borrowLeftLeaf", "borrowRightLeaf"} # {} =>
               LeafBorrow(BeforeRepair(c[1], c[2]), fin, searchLeafNode(tree, c[1]), sepOf)

(* the key of the donor nearest to the receiver, once the pair has left *)
DonorBoundary(fromLeft, donor, receiver) ==
    IF fromLeft THEN donor.keys[Len(donor.keys)] ELSE Head(donor.keys)

(* the first key of the right-hand node of the two *)
RightFirstKey(fromLeft, donor, receiver) ==
    IF fromLeft THEN Head(receiver.keys) ELSE Head(donor.keys)

(* C30 as stated: after a leaf borrow, in either direction, the parent     *)
(* separator between donor and receiver equals the donor's new boundary    *)
(* key, the key of the donor nearest to the receiver after the borrowed    *)
(* pair has been removed; one (key, group) pair has moved and no other     *)
(* node has changed.                                                       *)
C30_SeparatorIsDonorBoundary == EveryLeafBorrow(DonorBoundary)

(* C30 amended: after a leaf borrow the parent separator between donor and *)
(* receiver equals the first key of the right-hand node of the two: the    *)
(* borrowed key when the donor is the left sibling, the donor's new first  *)
(* key when it is the right sibling; one (key, group) pair has moved and   *)
(* no node but donor, receiver and parent has changed.                     *)
C30_SeparatorIsRightFirstKey == EveryLeafBorrow(RightFirstKey)

C30_Witness ==
    /\ "borrowLeftLeaf" \in tree.did
    /\ Len(tree.repairs) = 1
    /\ tree.repairs[1].choice = "borrowLeft"
    /\ tree.repairs[1].isLeaf
    /\ LET r == tree.repairs[1]
           idx == IndexOf(N(r.parent).children, r.node)
           donor == N(DonorOf(r))
       IN /\ At(N(r.parent).keys, idx - 1) = Head(N(r.node).keys)
          /\ At(N(r.parent).keys, idx - 1) # donor.keys[Len(donor.keys)]

----------------------------------------------------------------------------
(* Splits, borrows and merges, one call at a time *)

(* the entries the calls of op leave in a log *)
Entries(log, ops) == {log[i] : i \in {j \in 1..Len(log) : log[j].op \in ops}}

(* the calls of splitChild that insert(row) makes from the current state *)
SplitsOf(row) == Entries(insert(Fresh(tree), row).log, {"splitChild"})

ChildOf(e) == At(e.t.nodes[e.parent].children, e.index)

SplitOf(e) == splitChild(e.t, e.parent, e.index, ChildOf(e))

(* the leaf [a, b, c] keeps [a], the new right leaf holds [b, c] with the   *)
(* matching groups, the parent gets b at index and the new leaf at index   *)
(* + 1, and the new leaf is chained in right after the old one             *)
LeafSplit(e) ==
    LET n  == e.t.nodeIdCounter
        c0 == e.t.nodes[ChildOf(e)]
        p0 == e.t.nodes[e.parent]
        c1 == SplitOf(e).nodes[ChildOf(e)]
        p1 == SplitOf(e).nodes[e.parent]
        new == SplitOf(e).nodes[n]
    IN /\ Len(c0.keys) = ORDER - 1
       /\ n \notin DOMAIN e.t.nodes
       /\ c1.keys = <<c0.keys[1]>> /\ c1.data = <<c0.data[1]>>
       /\ new.isLeaf
       /\ new.keys = <<c0.keys[2], c0.keys[3]>>
       /\ new.data = <<c0.data[2], c0.data[3]>>
       /\ p1.keys = Upto(p0.keys, e.index) \o <<c0.keys[2]>> \o From(p0.keys, e.index)
       /\ p1.children = Upto(p0.children, e.index + 1) \o <<n>>
                            \o From(p0.children, e.index + 1)
       /\ At(p1.children, e.index) = ChildOf(e)
       /\ new.next = c0.next
       /\ c1.next = n

(* C31: splitting a full leaf [a, b, c] at child index i of its parent     *)
(* leaves [a] in the old leaf and creates a right leaf [b, c] with the     *)
(* matching groups; the parent gets b as new separator at index i and the  *)
(* new leaf as child i + 1; the new leaf's next is the old leaf's former   *)
(* next, the old leaf's next is the new leaf, and b stays in the new leaf. *)
C31_LeafSplit ==
    \A row \in Rows : \A e \in SplitsOf(row) :
        e.t.nodes[ChildOf(e)].isLeaf => LeafSplit(e)

(* the last call split one leaf: the newest node is the right half *)
C31_Witness ==
    /\ tree.did = {"splitLeaf"}
    /\ LET n == tree.nodeIdCounter - 1
       IN /\ n \in Leaves(tree)
          /\ \E a \in Leaves(tree) :
                LET p == N(a).parent
                    idx == IndexOf(N(p).children, a)
                IN /\ N(a).next = n
                   /\ N(n).parent = p
                   /\ At(N(p).children, idx + 1) = n
                   /\ At(N(p).keys, idx) = Head(N(n).keys)

(* the internal node [a, b, c] over c0..c3 keeps [a] over c0, c1, the new   *)
(* right node holds [c] over c2, c3, which name it as parent, and b is in   *)
(* the parent at index: the slot of b is in neither half                    *)
InternalSplit(e) ==
    LET n  == e.t.nodeIdCounter
        c0 == e.t.nodes[ChildOf(e)]
        p0 == e.t.nodes[e.parent]
        c1 == SplitOf(e).nodes[ChildOf(e)]
        p1 == SplitOf(e).nodes[e.parent]
        new == SplitOf(e).nodes[n]
    IN /\ Len(c0.keys) = ORDER - 1 /\ Len(c0.children) = ORDER
       /\ n \notin DOMAIN e.t.nodes
       /\ c1.keys = <<c0.keys[1]>>
       /\ c1.children = <<c0.children[1], c0.children[2]>>
       /\ ~new.isLeaf
       /\ new.keys = <<c0.keys[3]>>
       /\ new.children = <<c0.children[3], c0.children[4]>>
       /\ SplitOf(e).nodes[c0.children[3]].parent = n
       /\ SplitOf(e).nodes[c0.children[4]].parent = n
       /\ SplitOf(e).nodes[c0.children[1]].parent = ChildOf(e)
       /\ SplitOf(e).nodes[c0.children[2]].parent = ChildOf(e)
       /\ p1.keys = Upto(p0.keys, e.index) \o <<c0.keys[2]>> \o From(p0.keys, e.index)
       /\ p1.children = Upto(p0.children, e.index + 1) \o <<n>>
                            \o From(p0.children, e.index + 1)

(* C32: splitting a full internal node with keys [a, b, c] and children    *)
(* c0..c3 promotes b to the parent as new separator and removes it from    *)
(* both halves: the old node keeps [a] with c0, c1, the new right node     *)
(* gets [c] with c2, c3, and c2 and c3 have the new node as parent.        *)
C32_InternalSplit ==
    \A row \in Rows : \A e \in SplitsOf(row) :
        ~e.t.nodes[ChildOf(e)].isLeaf => InternalSplit(e)

(* the last call split an internal node: a new internal node stands        *)
(* right of the old one, its children name it as parent, and the separator *)
(* between the two is a key of neither                                      *)
C32_Witness ==
    /\ "splitInternal" \in tree.did
    /\ \E n \in Reach(tree) \ {tree.root} :
          LET p == N(n).parent
              idx == IndexOf(N(p).children, n)
              a == At(N(p).children, idx - 1)
              sep == At(N(p).keys, idx - 1)
          IN /\ ~N(n).isLeaf
             /\ n >= tree.nodeIdCounter - 2
             /\ idx > 0
             /\ \A k \in 1..Len(N(n).children) : N(N(n).children[k]).parent = n
             /\ \A k \in 1..Len(N(a).keys) : N(a).keys[k] # sep
             /\ \A k \in 1..Len(N(n).keys) : N(n).keys[k] # sep

(* the borrows and merges that a call of delete makes from the current state *)
RepairsOf(c, ops) == Entries(delete(Fresh(tree), c[1], c[2]).log, ops)

(* the separator invariant at node a of tree t *)
SeparatorsAt(t, a) ==
    \A i \in 1..Len(t.nodes[a].keys) :
        /\ i + 1 <= Len(t.nodes[a].children)
        /\ \A k \in SubtreeKeys(t, t.nodes[a].children[i]) : k < t.nodes[a].keys[i]
        /\ \A k \in SubtreeKeys(t, t.nodes[a].children[i + 1]) : k >= t.nodes[a].keys[i]

BorrowOf(e) ==
    IF e.op = "borrowLeft" THEN borrowFromLeft(e.t, e.parent, e.index)
    ELSE borrowFromRight(e.t, e.parent, e.index)

(* the rotation through the parent: the old separator is the receiver's    *)
(* new key at the donor's side, the donor's key at the receiver's side is  *)
(* the new separator, and the donor's child at that side has moved to the  *)
(* receiver's matching end and names the receiver as parent                *)
Rotation(e) ==
    LET fromLeft == e.op = "borrowLeft"
        receiver == ChildOf(e)
        donor  == At(e.t.nodes[e.parent].children,
                     IF fromLeft THEN e.index - 1 ELSE e.index + 1)
        sepIdx == IF fromLeft THEN e.index - 1 ELSE e.index
        p0 == e.t.nodes[e.parent]
        d0 == e.t.nodes[donor]
        r0 == e.t.nodes[receiver]
        p1 == BorrowOf(e).nodes[e.parent]
        d1 == BorrowOf(e).nodes[donor]
        r1 == BorrowOf(e).nodes[receiver]
        oldSep == At(p0.keys, sepIdx)
        m  == Len(d0.keys)
        mc == Len(d0.children)
        movedKey == IF fromLeft THEN d0.keys[m] ELSE d0.keys[1]
        movedChild == IF fromLeft THEN d0.children[mc] ELSE d0.children[1]
    IN /\ r1.keys = IF fromLeft THEN <<oldSep>> \o r0.keys ELSE Append(r0.keys, oldSep)
       /\ p1.keys = SetAt(p0.keys, sepIdx, movedKey)
       /\ p1.children = p0.children
       /\ d1.keys = IF fromLeft THEN Upto(d0.keys, m - 1) ELSE Tail(d0.keys)
       /\ d1.children = IF fromLeft THEN Upto(d0.children, mc - 1) ELSE Tail(d0.children)
       /\ r1.children = IF fromLeft THEN <<movedChild>> \o r0.children
                        ELSE Append(r0.children, movedChild)
       /\ BorrowOf(e).nodes[movedChild].parent = receiver

SeparatorsAfterBorrow(e) ==
    LET fromLeft == e.op = "borrowLeft"
        donor == At(e.t.nodes[e.parent].children,
                    IF fromLeft THEN e.index - 1 ELSE e.index + 1)
    IN \A a \in {donor, ChildOf(e), e.parent} : SeparatorsAt(BorrowOf(e), a)

MergeOf(e) ==
    IF e.op = "mergeLeft" THEN mergeWithLeft(e.t, e.parent, e.index)
    ELSE mergeWithRight(e.t, e.parent, e.index)

(* the two nodes of a merge: the left one survives, the right one is       *)
(* absorbed; sepIdx is the index of the separator between them             *)
SepIdx(e) == IF e.op = "mergeLeft" THEN e.index - 1 ELSE e.index

Survivor(e) == At(e.t.nodes[e.parent].children, SepIdx(e))

Absorbed(e) == At(e.t.nodes[e.parent].children, SepIdx(e) + 1)

(* the parent has lost the separator between the two nodes and the pointer *)
(* to the absorbed one, and nothing else                                   *)
ParentAfterMerge(e) ==
    LET p0 == e.t.nodes[e.parent]
        p1 == MergeOf(e).nodes[e.parent]
    IN /\ p1.keys = Upto(p0.keys, SepIdx(e)) \o From(p0.keys, SepIdx(e) + 1)
       /\ p1.children = Upto(p0.children, SepIdx(e) + 1)
                            \o From(p0.children, SepIdx(e) + 2)
       /\ \A k \in 1..Len(p1.children) : p1.children[k] # Absorbed(e)
       /\ \E k \in 1..Len(p1.children) : p1.children[k] = Survivor(e)

LeafMerge(e) ==
    LET l0 == e.t.nodes[Survivor(e)]
        r0 == e.t.nodes[Absorbed(e)]
        s1 == MergeOf(e).nodes[Survivor(e)]
    IN /\ s1.isLeaf
       /\ s1.keys = l0.keys \o r0.keys
       /\ s1.data = l0.data \o r0.data
       /\ \A i \in 1..(Len(s1.keys) - 1) : s1.keys[i] < s1.keys[i + 1]
       /\ s1.next = r0.next
       /\ ParentAfterMerge(e)
       /\ Absorbed(e) \notin Reach(MergeOf(e))
       /\ \A i \in 1..Len(Chain(MergeOf(e))) : Chain(MergeOf(e))[i] # Absorbed(e)

(* C34: a leaf merge leaves one leaf holding the keys and groups of both   *)
(* leaves in ascending order, makes the surviving leaf's next the absorbed *)
(* right-hand leaf's former next, and removes from the parent exactly the  *)
(* separator between the two leaves and the pointer to the absorbed leaf;  *)
(* the absorbed leaf is then reachable neither from the root nor through   *)
(* the leaf chain.                                                         *)
C34_LeafMerge ==
    \A c \in DeleteCalls : \A e \in RepairsOf(c, {"mergeLeft", "mergeRight"}) :
        e.t.nodes[ChildOf(e)].isLeaf => LeafMerge(e)

(* the last delete merged an emptied leaf into its left sibling: the leaf  *)
(* is gone, the sibling is a leaf of the tree and the chain, and the       *)
(* parent, if it is still there, does not list the leaf                    *)
C34_Witness ==
    /\ "mergeLeftLeaf" \in tree.did
    /\ tree.repairs # <<>>
    /\ tree.repairs[1].choice = "mergeLeft"
    /\ tree.repairs[1].node \notin DOMAIN tree.nodes
    /\ tree.repairs[1].leftKeys = MIN_KEYS
    /\ Len(Chain(tree)) = Cardinality(Leaves(tree))
    /\ \A a \in Reach(tree) : \A k \in 1..Len(N(a).children) :
          N(a).children[k] # tree.repairs[1].node

InternalMerge(e) ==
    LET l0 == e.t.nodes[Survivor(e)]
        r0 == e.t.nodes[Absorbed(e)]
        s1 == MergeOf(e).nodes[Survivor(e)]
        sep == At(e.t.nodes[e.parent].keys, SepIdx(e))
    IN /\ ~s1.isLeaf
       /\ s1.keys = l0.keys \o <<sep>> \o r0.keys
       /\ s1.children = l0.children \o r0.children
       /\ \A k \in 1..Len(s1.children) :
             MergeOf(e).nodes[s1.children[k]].parent = Survivor(e)
       /\ ParentAfterMerge(e)

(* C35: an internal merge leaves one node whose keys are the left node's   *)
(* keys, then the parent separator, then the right node's keys, and whose  *)
(* children are the left node's children followed by the right node's      *)
(* children, every moved child having the surviving node as parent; the    *)
(* parent loses exactly that separator and the pointer to the absorbed     *)
(* node.                                                                   *)
C35_InternalMerge ==
    \A c \in DeleteCalls : \A e \in RepairsOf(c, {"mergeLeft", "mergeRight"}) :
        ~e.t.nodes[ChildOf(e)].isLeaf => InternalMerge(e)

(* the last delete merged an internal node with its right sibling: the     *)
(* node holds one key more than the two held and is the parent of all its  *)
(* children                                                                *)
C35_Witness ==
    /\ "mergeRightInternal" \in tree.did
    /\ Len(tree.repairs) = 2
    /\ tree.repairs[2].choice = "mergeRight"
    /\ ~tree.repairs[2].isLeaf
    /\ LET a == tree.repairs[2].node
       IN /\ a \in Reach(tree)
          /\ Len(N(a).keys) = tree.repairs[2].keys + tree.repairs[2].rightKeys + 1
          /\ Len(N(a).children) = Len(N(a).keys) + 1
          /\ \A k \in 1..Len(N(a).children) : N(N(a).children[k]).parent = a

----------------------------------------------------------------------------
(* Deleting a key *)

(* the rows stored under key k anywhere in the nodes of t *)
RowsUnder(t, k) ==
    UNION {UNION {{t.nodes[a].data[i][j] : j \in 1..Len(t.nodes[a].data[i])} :
                     i \in {x \in 1..Len(t.nodes[a].keys) : t.nodes[a].keys[x] = k}} :
              a \in Leaves(t)}

(* C36: delete(key) without a row removes the whole key slot of a resident *)
(* key with every row of its group, under either policy: afterwards the    *)
(* key is not resident and no row that was stored under it remains in the  *)
(* tree.                                                                   *)
C36_DeleteKeyRemovesSlot ==
    \A k \in ResidentKeys \cap Keys :
        LET t2 == AfterDelete(k, NoRow)
        IN /\ k \notin KeysOf(t2)
           /\ \A row \in RowsUnder(tree, k) : ~Resident(t2, row)

(* the nodes from n up to the root *)
RECURSIVE PathUp(_, _)
PathUp(t, n) ==
    IF t.nodes[n].parent = NULL THEN {n} ELSE {n} \cup PathUp(t, t.nodes[n].parent)

(* s2 is s1 but for the element of 0-based index i, if there is one *)
SameBut(s1, s2, i) ==
    /\ Len(s1) = Len(s2)
    /\ \A j \in 1..Len(s1) : j # i + 1 => s1[j] = s2[j]

(* no node was created or destroyed, no children, parent or next reference *)
(* changed; keys and data changed in leaf n only, and for the rest only a   *)
(* separator just left of a node on the path from n to the root changed     *)
Framed(t1, t2, n) ==
    /\ DOMAIN t2.nodes = DOMAIN t1.nodes
    /\ t2.nodeIdCounter = t1.nodeIdCounter
    /\ t2.root = t1.root
    /\ \A a \in DOMAIN t1.nodes :
          /\ t2.nodes[a].children = t1.nodes[a].children
          /\ t2.nodes[a].parent = t1.nodes[a].parent
          /\ t2.nodes[a].next = t1.nodes[a].next
          /\ t2.nodes[a].isLeaf = t1.nodes[a].isLeaf
          /\ t2.nodes[a].id = t1.nodes[a].id
          /\ a # n => t2.nodes[a].data = t1.nodes[a].data
          /\ (a # n /\ t1.nodes[a].isLeaf) => t2.nodes[a].keys = t1.nodes[a].keys
          /\ ~t1.nodes[a].isLeaf =>
                IF \E b \in PathUp(t1, n) : t1.nodes[b].parent = a
                THEN LET b == CHOOSE x \in PathUp(t1, n) : t1.nodes[x].parent = a
                     IN SameBut(t1.nodes[a].keys, t2.nodes[a].keys,
                                IndexOf(t1.nodes[a].children, b) - 1)
                ELSE t2.nodes[a].keys = t1.nodes[a].keys

(* the call removes from the leaf of a resident key and leaves it at least *)
(* MIN_KEYS keys, or the leaf is the root                                   *)
LeafKeepsKeys(c) ==
    LET n == searchLeafNode(tree, c[1])
    IN /\ c[1] \in ResidentKeys
       /\ n # NULL
       /\ \/ n = tree.root
          \/ Len(deleteFromLeaf(Fresh(tree), n, c[1], c[2]).t.nodes[n].keys) >= MIN_KEYS

(* C37: a delete of a resident key that leaves its leaf with at least 1    *)
(* key, or that hits a leaf root, creates and destroys no node and changes *)
(* no children, parent or next reference: only the keys and data of that   *)
(* leaf and separators on the path from that leaf to the root may change.  *)
C37_DeleteFrame ==
    \A c \in DeleteCalls :
        LeafKeepsKeys(c) =>
            /\ Framed(tree, delete(Fresh(tree), c[1], c[2]), searchLeafNode(tree, c[1]))
            /\ DOMAIN AfterDelete(c[1], c[2]).nodes = DOMAIN tree.nodes

(* from here a delete(k) takes the first key k of a leaf that is not a     *)
(* leftmost child and keeps another: the leaf and the separator left of it *)
(* change and nothing else does                                            *)
C37_Witness ==
    \E k \in ResidentKeys \cap Keys :
        LET n == searchLeafNode(tree, k)
            fin == delete(Fresh(tree), k, NoRow)
            p == N(n).parent
        IN /\ LeafKeepsKeys(<<k, NoRow>>)
           /\ p # NULL
           /\ fin.nodes[n].keys # N(n).keys
           /\ fin.nodes[p].keys # N(p).keys
           /\ fin.did = {} /\ fin.repairs = <<>>
           /\ Framed(tree, fin, n)

----------------------------------------------------------------------------
(* The App's table *)

DistinctIds(data) ==
    \A i \in 1..Len(data), j \in 1..Len(data) : i # j => data[i].id # data[j].id

(* C38: in the App, after any sequence of add-row and delete-row events,   *)
(* no two rows of data share an id: adding a row whose id is already       *)
(* present leaves data unchanged and raises an error toast, so the         *)
(* primary-key tree rebuilt from data holds exactly one key slot per row   *)
(* and is never given a repeated key.                                     *)
C38_TableIdsUnique ==
    phase = "app" =>
        /\ DistinctIds(app.data)
        /\ \A row \in AppRows, toastId \in ToastIds :
              LET a2 == handleAddRow(app, row, toastId)
              IN /\ DistinctIds(a2.data)
                 /\ IdTaken(app.data, row) =>
                       /\ a2.data = app.data
                       /\ Len(a2.toasts) = Len(app.toasts) + 1
                       /\ a2.toasts[Len(a2.toasts)].variant = "error"
        /\ Same(tree, pkTree(app.data))
        /\ Cardinality(Slots(tree)) = Len(app.data)
        /\ \A i \in 1..Len(app.data) :
              /\ Cardinality(SlotsOf(app.data[i].id)) = 1
              /\ <<app.data[i].id, <<app.data[i]>>>> \in Slots(tree)

(* a row was refused for its id after rows were added and deleted: the     *)
(* toast is there, and the tree holds one slot per row of the table        *)
C38_Witness ==
    /\ phase = "app"
    /\ Len(app.toasts) = 1
    /\ app.toasts[1].variant = "error"
    /\ Len(app.data) = 4
    /\ app.data[1].id # 5
    /\ DistinctIds(app.data)
    /\ Cardinality(Slots(tree)) = 4

====
